---------------------------- MODULE Spec2Model ----------------------------
(***************************************************************************)
(* A model of lsst::geom::polynomials: packed 2-d index iteration, the     *)
(* binomial coefficient cache, recurrence bases and their scaled           *)
(* decorators, and the simplified() re-expansion of scaled polynomials.    *)
(*                                                                         *)
(* Values of C++ type double are modelled as exact rationals <<num, den>>  *)
(* in lowest terms with den > 0, so every equality below is an equality of *)
(* real numbers: floating-point rounding is not part of this model.        *)
(***************************************************************************)
EXTENDS Integers, Sequences, FiniteSets, TLC

(***************************************************************************)
(* Bounds of the model.                                                    *)
(***************************************************************************)
MaxOrder == 5

MaxNMax == 7

MaxBasisOrder == 3

MaxScalings == 2

MaxSimplifiedOrder1d == 3

MaxSimplifiedOrder2d == 2

\* The highest order of a basis whose fill and sumWith are run step by step.
MaxRecurrenceOrder == 5

\* The highest order of the basis of a Function that is constructed.
MaxFunctionOrder == 2

\* How many times in a row scaled() is called on a Function.
MaxFunctionScalings == 1

\* The number of operations applied to one SafeSum.
MaxSafeSumOps == 4

\* The number of basis or Function objects made by scaled() from one object.
MaxObjects == 2

\* The largest order of the objects whose receivers are watched.
MaxReceiverOrder == 1

\* The largest order of the 2-d objects evaluated with caller-owned workspaces.
MaxWorkspaceOrder == 1

\* The number of calls one caller makes with the same workspace.
MaxReuseCalls == 2
MaxBufferOrder == 2
MaxBufferScalings == 1

(***************************************************************************)
(* double arithmetic, exact.                                               *)
(***************************************************************************)
Abs(a) == IF a < 0 THEN 0 - a ELSE a

RECURSIVE GCD(_, _)
GCD(a, b) == IF b = 0 THEN a ELSE GCD(b, a % b)

Rat(num, den) ==
    LET s == IF den < 0 THEN 0 - 1 ELSE 1
        g == GCD(Abs(num), Abs(den))
    IN  <<(s * num) \div g, (s * den) \div g>>

R(i) == <<i, 1>>

\* The sum over the least common denominator.
RAdd(a, b) ==
    LET g == GCD(a[2], b[2])
    IN  Rat(a[1] * (b[2] \div g) + b[1] * (a[2] \div g), (a[2] \div g) * b[2])

RNeg(a) == <<0 - a[1], a[2]>>

RSub(a, b) == RAdd(a, RNeg(b))

\* The product, with the common factors taken out before multiplying.
RMul(a, b) ==
    LET g == GCD(Abs(a[1]), b[2])
        h == GCD(Abs(b[1]), a[2])
    IN  Rat((a[1] \div g) * (b[1] \div h), (a[2] \div h) * (b[2] \div g))

RDiv(a, b) == RMul(a, Rat(b[2], b[1]))

RAbs(a) == <<Abs(a[1]), a[2]>>

RGeq(a, b) ==
    LET g == GCD(a[2], b[2])
    IN  a[1] * (b[2] \div g) >= b[1] * (a[2] \div g)

(***************************************************************************)
(* PackedIndex.h                                                           *)
(***************************************************************************)
PackingOrder == {"YX", "XY"}

Index2d(flat, nx, ny) == [flat |-> flat, nx |-> nx, ny |-> ny]

\* computeInnerIndex with the two packings exchanged.
computeInnerIndex_exchanged(p, nx, ny) == IF p = "YX" THEN ny ELSE nx

computeInnerIndex(p, nx, ny) == IF p = "YX" THEN nx ELSE ny

\* increment whose XY wrap-around forgets the + 1.
increment_wrapWithoutPlusOne(p, i) ==
    IF p = "YX"
    THEN IF i.ny = 0
         THEN [i EXCEPT !.ny = i.nx + 1, !.nx = 0]
         ELSE [i EXCEPT !.ny = i.ny - 1, !.nx = i.nx + 1]
    ELSE IF i.nx = 0
         THEN [i EXCEPT !.nx = i.ny, !.ny = 0]
         ELSE [i EXCEPT !.nx = i.nx - 1, !.ny = i.ny + 1]

increment(p, i) ==
    IF p = "YX"
    THEN IF i.ny = 0
         THEN [i EXCEPT !.ny = i.nx + 1, !.nx = 0]
         ELSE [i EXCEPT !.ny = i.ny - 1, !.nx = i.nx + 1]
    ELSE IF i.nx = 0
         THEN [i EXCEPT !.nx = i.ny + 1, !.ny = 0]
         ELSE [i EXCEPT !.nx = i.nx - 1, !.ny = i.ny + 1]

getEndX(p, o) == IF p = "YX" THEN 0 ELSE o + 1

\* getEndY returning the order instead of order + 1.
getEndY_order(p, o) == IF p = "YX" THEN o ELSE 0

getEndY(p, o) == IF p = "YX" THEN o + 1 ELSE 0

computeOffset(o) == (o * (o + 1)) \div 2

computeSize(o) == computeOffset(o + 1)

computeIndex(p, nx, ny) == computeOffset(nx + ny) + computeInnerIndex(p, nx, ny)

\* makeEnd whose flat is the offset of the last order instead of the size.
makeEnd_flatOfOrder(p, o) == Index2d(computeOffset(o), getEndX(p, o), getEndY(p, o))

makeEnd(p, o) == Index2d(computeOffset(o + 1), getEndX(p, o), getEndY(p, o))

IteratorBegin == Index2d(0, 0, 0)

\* operator++ that forgets ++_index.flat.
IteratorIncrement_flatKept(p, i) == increment(p, i)

IteratorIncrement(p, i) == increment(p, [i EXCEPT !.flat = i.flat + 1])

\* The sequence of Index2d values a range-based for loop over
\* PackedIndexRange(begin, makeEnd(o)) dereferences.  The loop of the source
\* stops only when the iterator equals the end iterator; `fuel` cuts the
\* enumeration off after that many elements.
RECURSIVE RangeFrom(_, _, _, _)
RangeFrom(p, cur, end, fuel) ==
    IF cur = end \/ fuel = 0
    THEN <<>>
    ELSE <<cur>> \o RangeFrom(p, IteratorIncrement(p, cur), end, fuel - 1)

getIndices(p, o) == RangeFrom(p, IteratorBegin, makeEnd(p, o), computeSize(o) + 1)

RangeSize(p, o) == makeEnd(p, o).flat - IteratorBegin.flat

(***************************************************************************)
(* BinomialMatrix.{h,cc}                                                   *)
(***************************************************************************)
\* Eigen::MatrixXd::Zero(nMax + 1, nMax + 1), then col(0) and the diagonal
\* set to 1.
BinomialInitial(nMax) ==
    [i \in 0..nMax |-> [j \in 0..nMax |-> IF j = 0 \/ i = j THEN R(1) ELSE R(0)]]

\* BinomialEntry with the ratio inverted.
BinomialEntry_ratioInverted(M, i, j) == RMul(M[i - 1][j - 1], RDiv(R(j), R(i)))

\* _matrix(i - 1, j - 1) * (i / j)
BinomialEntry(M, i, j) == RMul(M[i - 1][j - 1], RDiv(R(i), R(j)))

\* for (int j = 1; j < i; ++j)
RECURSIVE BinomialInner(_, _, _)
BinomialInner(M, i, j) ==
    IF j < i
    THEN BinomialInner([M EXCEPT ![i][j] = BinomialEntry(M, i, j)], i, j + 1)
    ELSE M

\* for (int i = 2; i <= nMax; ++i)
RECURSIVE BinomialOuter(_, _, _)
BinomialOuter(M, nMax, i) ==
    IF i <= nMax
    THEN BinomialOuter(
             BinomialInner([M EXCEPT ![i][0] = R(1), ![i][i] = R(1)], i, 1),
             nMax, i + 1)
    ELSE M

BinomialMatrix(nMax) == BinomialOuter(BinomialInitial(nMax), nMax, 2)

\* double operator()(int n, int k) const
binomial(M, n, k) == M[n][k]

(***************************************************************************)
(* Scaling1d.h, Scaling2d.h                                                *)
(***************************************************************************)
Scaling1d(scale, shift) == [scale |-> scale, shift |-> shift]

applyForward1d(s, x) == RMul(RAdd(x, s.shift), s.scale)

\* applyInverse taking the shift off before dividing by the scale.
applyInverse1d_shiftFirst(s, y) == RDiv(RSub(y, s.shift), s.scale)

applyInverse1d(s, y) == RSub(RDiv(y, s.scale), s.shift)

\* inverted() that negates the shift without multiplying it by the scale.
inverted1d_shiftUnscaled(s) == Scaling1d(RDiv(R(1), s.scale), RNeg(s.shift))

inverted1d(s) == Scaling1d(RDiv(R(1), s.scale), RMul(RNeg(s.shift), s.scale))

\* then() that adds the second shift without dividing it by the first scale.
then1d_shiftUnscaled(first, second) ==
    Scaling1d(RMul(first.scale, second.scale), RAdd(first.shift, second.shift))

then1d(first, second) ==
    Scaling1d(RMul(first.scale, second.scale),
              RAdd(first.shift, RDiv(second.shift, first.scale)))

\* makeUnitRangeScaling1d with the shift +0.5*(min + max).
makeUnitRangeScaling1d_shiftSign(min, max) ==
    Scaling1d(RDiv(R(2), RSub(max, min)), RMul(Rat(1, 2), RAdd(min, max)))

makeUnitRangeScaling1d(min, max) ==
    Scaling1d(RDiv(R(2), RSub(max, min)), RMul(Rat(0 - 1, 2), RAdd(min, max)))

Point2D(x, y) == [x |-> x, y |-> y]

Scaling2d(x, y) == [x |-> x, y |-> y]

applyForward2d(s, p) == Point2D(applyForward1d(s.x, p.x), applyForward1d(s.y, p.y))

applyInverse2d(s, p) == Point2D(applyInverse1d(s.x, p.x), applyInverse1d(s.y, p.y))

inverted2d(s) == Scaling2d(inverted1d(s.x), inverted1d(s.y))

then2d(first, second) == Scaling2d(then1d(first.x, second.x), then1d(first.y, second.y))

\* box = [min |-> Point2D, max |-> Point2D]
makeUnitRangeScaling2d(box) ==
    Scaling2d(makeUnitRangeScaling1d(box.min.x, box.max.x),
              makeUnitRangeScaling1d(box.min.y, box.max.y))

(***************************************************************************)
(* SafeSum.h                                                               *)
(***************************************************************************)
SumMode == {"FAST", "SAFE"}

SafeSum(initial) == [sum |-> initial, correction |-> R(0)]

SafeSumAssign(z, value) == [sum |-> value, correction |-> R(0)]

SafeSumAdd(z, value) ==
    LET t == RAdd(z.sum, value)
    IN  [sum |-> t,
         correction |->
             IF RGeq(RAbs(z.sum), RAbs(value))
             THEN RAdd(z.correction, RAdd(RSub(z.sum, t), value))
             ELSE RAdd(z.correction, RAdd(RSub(value, t), z.sum))]

SafeSumSub(z, value) == SafeSumAdd(z, RNeg(value))

SafeSumValue(z) == RAdd(z.sum, z.correction)

(***************************************************************************)
(* SafeSum<double>.  The doubles met here are whole numbers below 2^58, so *)
(* a double is kept as <<hi, lo>> standing for hi * 2^27 + lo with         *)
(* 0 <= lo < 2^27, and an addition is the exact sum rounded to the nearest *)
(* value with a 53-bit significand, ties to the even significand (the      *)
(* IEEE 754 default rounding).                                             *)
(***************************************************************************)
Limb == 134217728

Double(hi, lo) == <<hi, lo>>

DoubleOfInt(i) == IF i >= 0 THEN <<0, i>> ELSE <<0 - 1, Limb + i>>

DoubleZero == <<0, 0>>

DoubleNeg(a) == IF a[2] = 0 THEN <<0 - a[1], 0>> ELSE <<0 - a[1] - 1, Limb - a[2]>>

DoubleIsNegative(a) == a[1] < 0

DoubleAbs(a) == IF DoubleIsNegative(a) THEN DoubleNeg(a) ELSE a

DoubleGeq(a, b) == a[1] > b[1] \/ (a[1] = b[1] /\ a[2] >= b[2])

\* The sum of a and b as a real number.
ExactAdd(a, b) ==
    LET lo == a[2] + b[2]
    IN  <<a[1] + b[1] + (lo \div Limb), lo % Limb>>

\* The spacing of doubles at magnitude m >= 0: 1 below 2^53, 2 below 2^54, ...
Ulp(m) ==
    IF m[1] < 67108864 THEN 1
    ELSE IF m[1] < 134217728 THEN 2
    ELSE IF m[1] < 268435456 THEN 4
    ELSE IF m[1] < 536870912 THEN 8
    ELSE 16

RoundMagnitude(m) ==
    LET u == Ulp(m)
        r == m[2] % u
        down == <<m[1], m[2] - r>>
        up == ExactAdd(down, <<0, u>>)
    IN  IF r = 0 THEN m
        ELSE IF 2 * r < u THEN down
        ELSE IF 2 * r > u THEN up
        ELSE IF (down[2] \div u) % 2 = 0 THEN down ELSE up

RoundToDouble(a) ==
    IF DoubleIsNegative(a) THEN DoubleNeg(RoundMagnitude(DoubleNeg(a))) ELSE RoundMagnitude(a)

\* a + b on doubles.
DoubleAdd(a, b) == RoundToDouble(ExactAdd(a, b))

\* a - b on doubles.
DoubleSub(a, b) == DoubleAdd(a, DoubleNeg(b))

\* Whether a + b is rounded.
AddRounds(a, b) == DoubleAdd(a, b) # ExactAdd(a, b)

SafeSumDouble(initial) == [sum |-> initial, correction |-> DoubleZero]

\* A variant of = that keeps the correction.
SafeSumDoubleAssign_correctionKept(z, value) == [sum |-> value, correction |-> z.correction]

SafeSumDoubleAssign(z, value) == [sum |-> value, correction |-> DoubleZero]

\* A variant of += that always uses the first correction formula.
SafeSumDoubleAdd_noMagnitudeTest(z, value) ==
    LET t == DoubleAdd(z.sum, value)
    IN  [sum |-> t,
         correction |-> DoubleAdd(z.correction, DoubleAdd(DoubleSub(z.sum, t), value))]

SafeSumDoubleAdd(z, value) ==
    LET t == DoubleAdd(z.sum, value)
    IN  [sum |-> t,
         correction |->
             IF DoubleGeq(DoubleAbs(z.sum), DoubleAbs(value))
             THEN DoubleAdd(z.correction, DoubleAdd(DoubleSub(z.sum, t), value))
             ELSE DoubleAdd(z.correction, DoubleAdd(DoubleSub(value, t), z.sum))]

SafeSumDoubleSub(z, value) == SafeSumDoubleAdd(z, DoubleNeg(value))

SafeSumDoubleValue(z) == DoubleAdd(z.sum, z.correction)

\* `sum += v` inside the generic accumulate lambdas: sum is a double in FAST
\* mode and a SafeSum<double> in SAFE mode.
Accumulate(mode, sum, v) == IF mode = "FAST" THEN RAdd(sum, v) ELSE SafeSumAdd(sum, v)

(***************************************************************************)
(* PolynomialBasis1d.h, Chebyshev1Basis1d.h, RecurrenceBasis1d.h           *)
(***************************************************************************)
Recurrences == {"Polynomial", "Chebyshev1"}

\* getB0 returning its argument.
getB0_argument(rec, x) == x

getB0(rec, x) == R(1)

getB1(rec, x) == x

\* next with the previous value added instead of subtracted.
next_previousAdded(rec, x, n, current, previous) ==
    IF rec = "Polynomial"
    THEN RMul(current, x)
    ELSE RAdd(RMul(RMul(R(2), x), current), previous)

next(rec, x, n, current, previous) ==
    IF rec = "Polynomial"
    THEN RMul(current, x)
    ELSE RSub(RMul(RMul(R(2), x), current), previous)

RecurrenceBasis1d(rec, o) == [type |-> "RecurrenceBasis1d", recurrence |-> rec, order |-> o]

RecurrenceBasis1d_getOrder(b) == b.order

RecurrenceBasis1d_size(b) == b.order + 1

\* for (std::size_t n = 2; n <= _order; ++n) of fill
\* The loop of fill running one turn too many.
RECURSIVE RecurrenceFillLoop_onePast(_, _, _, _)
RecurrenceFillLoop_onePast(b, x, out, n) ==
    IF n <= b.order + 1
    THEN RecurrenceFillLoop_onePast(b, x,
             [out EXCEPT ![n] = next(b.recurrence, x, n, out[n - 1], out[n - 2])],
             n + 1)
    ELSE out

RECURSIVE RecurrenceFillLoop(_, _, _, _)
RecurrenceFillLoop(b, x, out, n) ==
    IF n <= b.order
    THEN RecurrenceFillLoop(b, x,
             [out EXCEPT ![n] = next(b.recurrence, x, n, out[n - 1], out[n - 2])],
             n + 1)
    ELSE out

RecurrenceBasis1d_fill(b, x, out) ==
    LET out0 == [out EXCEPT ![0] = getB0(b.recurrence, x)]
    IN  IF b.order > 0
        THEN RecurrenceFillLoop(b, x, [out0 EXCEPT ![1] = getB1(b.recurrence, x)], 2)
        ELSE out0

\* for (std::size_t n = 2; n <= _order; ++n) of the accumulate lambda
RECURSIVE RecurrenceSumLoop(_, _, _, _, _, _, _, _)
RecurrenceSumLoop(b, x, coefficients, mode, sum, n, current, previous) ==
    IF n <= b.order
    THEN LET nxt == next(b.recurrence, x, n, current, previous)
             s == Accumulate(mode, sum, RMul(coefficients[n], nxt))
         IN  \* s = s has TLC evaluate the sum in this iteration, as the loop does
             IF s = s
             THEN RecurrenceSumLoop(b, x, coefficients, mode, s, n + 1, nxt, current)
             ELSE s
    ELSE sum

\* The accumulate lambda without its `sum += coefficients[1]*current`.
RecurrenceAccumulate_firstTermDropped(b, x, coefficients, mode, sum) ==
    LET previous == getB0(b.recurrence, x)
    IN  IF b.order > 0
        THEN LET current == getB1(b.recurrence, x)
             IN  RecurrenceSumLoop(b, x, coefficients, mode, sum, 2, current, previous)
        ELSE sum

RecurrenceAccumulate(b, x, coefficients, mode, sum) ==
    LET previous == getB0(b.recurrence, x)
    IN  IF b.order > 0
        THEN LET current == getB1(b.recurrence, x)
             IN  RecurrenceSumLoop(b, x, coefficients, mode,
                     Accumulate(mode, sum, RMul(coefficients[1], current)),
                     2, current, previous)
        ELSE sum

RecurrenceBasis1d_sumWith(b, x, coefficients, mode) ==
    LET z0 == RMul(getB0(b.recurrence, x), coefficients[0])
    IN  IF mode = "FAST"
        THEN RecurrenceAccumulate(b, x, coefficients, mode, z0)
        ELSE SafeSumValue(RecurrenceAccumulate(b, x, coefficients, mode, SafeSum(z0)))

(***************************************************************************)
(* ScaledBasis1d.h                                                         *)
(***************************************************************************)
ScaledBasis1d(nested, scaling) ==
    [type |-> "ScaledBasis1d", nested |-> nested, scaling |-> scaling]

\* ScaledBasis1d(order, min, max), for a nested recurrence basis
ScaledBasis1dRange(rec, o, min, max) ==
    ScaledBasis1d(RecurrenceBasis1d(rec, o), makeUnitRangeScaling1d(min, max))

RecurrenceBasis1d_scaled(b, scaling) == ScaledBasis1d(b, scaling)

ScaledBasis1d_getOrder(b) == RecurrenceBasis1d_getOrder(b.nested)

ScaledBasis1d_size(b) == RecurrenceBasis1d_size(b.nested)

\* scaled() composing the two scalings in the wrong order.
ScaledBasis1d_scaled_reversed(b, first) ==
    RecurrenceBasis1d_scaled(b.nested, then1d(b.scaling, first))

ScaledBasis1d_scaled(b, first) == RecurrenceBasis1d_scaled(b.nested, then1d(first, b.scaling))

\* sumWith that hands x to the nested basis without applying the scaling.
ScaledBasis1d_sumWith_unscaled(b, x, coefficients, mode) ==
    RecurrenceBasis1d_sumWith(b.nested, x, coefficients, mode)

ScaledBasis1d_sumWith(b, x, coefficients, mode) ==
    RecurrenceBasis1d_sumWith(b.nested, applyForward1d(b.scaling, x), coefficients, mode)

ScaledBasis1d_fill(b, x, out) ==
    RecurrenceBasis1d_fill(b.nested, applyForward1d(b.scaling, x), out)

(***************************************************************************)
(* PackedBasis2d.h                                                         *)
(***************************************************************************)
PackedBasis2d(basis1d, p) == [type |-> "PackedBasis2d", basis1d |-> basis1d, packing |-> p]

PackedBasis2d_getOrder(b) == RecurrenceBasis1d_getOrder(b.basis1d)

PackedBasis2d_size(b) == computeSize(PackedBasis2d_getOrder(b))

PackedBasis2d_index(b, x, y) == computeIndex(b.packing, x, y)

PackedBasis2d_getIndices(b) == getIndices(b.packing, PackedBasis2d_getOrder(b))

\* PackedBasisWorkspace2d(order): two vectors of order + 1 doubles whose
\* elements are not initialized; `garbage` is what that memory holds.
PackedBasisWorkspace2d(o, garbage) ==
    [x |-> [n \in 0..o |-> garbage], y |-> [n \in 0..o |-> garbage]]

WorkspaceGetOrder(workspace) == Cardinality(DOMAIN workspace.x) - 1

PackedBasis2d_makeWorkspace(b, garbage) ==
    PackedBasisWorkspace2d(PackedBasis2d_getOrder(b), garbage)

\* WorkspaceFill evaluating both 1-d bases at point.getX().
WorkspaceFill_yFromX(b, point, workspace) ==
    [x |-> RecurrenceBasis1d_fill(b.basis1d, point.x, workspace.x),
     y |-> RecurrenceBasis1d_fill(b.basis1d, point.x, workspace.y)]

\* _basis1d.fill(point.getX(), workspace._x); _basis1d.fill(point.getY(), workspace._y);
WorkspaceFill(b, point, workspace) ==
    [x |-> RecurrenceBasis1d_fill(b.basis1d, point.x, workspace.x),
     y |-> RecurrenceBasis1d_fill(b.basis1d, point.y, workspace.y)]

\* for (auto const & index : getIndices()) sum += coefficients[index.flat]*_x[nx]*_y[ny];
RECURSIVE PackedSumLoop(_, _, _, _, _, _)
PackedSumLoop(indices, m, coefficients, workspace, mode, sum) ==
    IF m <= Len(indices)
    THEN LET i == indices[m]
             s == Accumulate(mode, sum,
                     RMul(RMul(coefficients[i.flat], workspace.x[i.nx]), workspace.y[i.ny]))
         IN  \* s = s has TLC evaluate the sum in this iteration, as the loop does
             IF s = s
             THEN PackedSumLoop(indices, m + 1, coefficients, workspace, mode, s)
             ELSE s
    ELSE sum

\* sumWith(point, coefficients, workspace, mode): the value returned and
\* the workspace as the call leaves it.
PackedBasis2d_sumWithWs(b, point, coefficients, workspace, mode) ==
    LET ws == WorkspaceFill(b, point, workspace)
        indices == PackedBasis2d_getIndices(b)
    IN  [result |->
             IF mode = "FAST"
             THEN PackedSumLoop(indices, 1, coefficients, ws, mode, R(0))
             ELSE SafeSumValue(PackedSumLoop(indices, 1, coefficients, ws, mode, SafeSum(R(0)))),
         workspace |-> ws]

PackedBasis2d_sumWith(b, point, coefficients, mode, garbage) ==
    PackedBasis2d_sumWithWs(b, point, coefficients,
                            PackedBasis2d_makeWorkspace(b, garbage), mode).result

\* for (auto const & index : getIndices()) basis[index.flat] = _x[nx]*_y[ny];
RECURSIVE PackedFillLoop(_, _, _, _)
PackedFillLoop(indices, m, workspace, out) ==
    IF m <= Len(indices)
    THEN LET i == indices[m]
         IN  PackedFillLoop(indices, m + 1, workspace,
                 [out EXCEPT ![i.flat] = RMul(workspace.x[i.nx], workspace.y[i.ny])])
    ELSE out

\* fill(point, basis, workspace): the output vector and the workspace as the
\* call leaves them.
PackedBasis2d_fillWs(b, point, out, workspace) ==
    LET ws == WorkspaceFill(b, point, workspace)
    IN  [basis |-> PackedFillLoop(PackedBasis2d_getIndices(b), 1, ws, out),
         workspace |-> ws]

PackedBasis2d_fill(b, point, out, garbage) ==
    PackedBasis2d_fillWs(b, point, out, PackedBasis2d_makeWorkspace(b, garbage)).basis

(***************************************************************************)
(* ScaledBasis2d.h                                                         *)
(***************************************************************************)
ScaledBasis2d(nested, scaling) ==
    [type |-> "ScaledBasis2d", nested |-> nested, scaling |-> scaling]

\* ScaledBasis2d(order, box), for a nested packed basis
ScaledBasis2dBox(rec, p, o, box) ==
    ScaledBasis2d(PackedBasis2d(RecurrenceBasis1d(rec, o), p), makeUnitRangeScaling2d(box))

PackedBasis2d_scaled(b, first) == ScaledBasis2d(b, first)

ScaledBasis2d_getOrder(b) == PackedBasis2d_getOrder(b.nested)

ScaledBasis2d_size(b) == PackedBasis2d_size(b.nested)

ScaledBasis2d_scaled(b, first) == PackedBasis2d_scaled(b.nested, then2d(first, b.scaling))

ScaledBasis2d_index(b, x, y) == PackedBasis2d_index(b.nested, x, y)

ScaledBasis2d_getIndices(b) == PackedBasis2d_getIndices(b.nested)

ScaledBasis2d_makeWorkspace(b, garbage) == PackedBasis2d_makeWorkspace(b.nested, garbage)

ScaledBasis2d_sumWith(b, point, coefficients, mode, garbage) ==
    PackedBasis2d_sumWith(b.nested, applyForward2d(b.scaling, point), coefficients, mode, garbage)

ScaledBasis2d_sumWithWs(b, point, coefficients, workspace, mode) ==
    PackedBasis2d_sumWithWs(b.nested, applyForward2d(b.scaling, point), coefficients, workspace, mode)

ScaledBasis2d_fill(b, point, out, garbage) ==
    PackedBasis2d_fill(b.nested, applyForward2d(b.scaling, point), out, garbage)

ScaledBasis2d_fillWs(b, point, out, workspace) ==
    PackedBasis2d_fillWs(b.nested, applyForward2d(b.scaling, point), out, workspace)

(***************************************************************************)
(* Basis1d.h, Basis2d.h: the operations every basis offers, dispatched on  *)
(* the static type of the basis.                                           *)
(***************************************************************************)
Is2d(b) == b.type \in {"PackedBasis2d", "ScaledBasis2d"}

IsScaled(b) == b.type \in {"ScaledBasis1d", "ScaledBasis2d"}

getOrder(b) ==
    CASE b.type = "RecurrenceBasis1d" -> RecurrenceBasis1d_getOrder(b)
      [] b.type = "ScaledBasis1d" -> ScaledBasis1d_getOrder(b)
      [] b.type = "PackedBasis2d" -> PackedBasis2d_getOrder(b)
      [] b.type = "ScaledBasis2d" -> ScaledBasis2d_getOrder(b)

size(b) ==
    CASE b.type = "RecurrenceBasis1d" -> RecurrenceBasis1d_size(b)
      [] b.type = "ScaledBasis1d" -> ScaledBasis1d_size(b)
      [] b.type = "PackedBasis2d" -> PackedBasis2d_size(b)
      [] b.type = "ScaledBasis2d" -> ScaledBasis2d_size(b)

scaled(b, first) ==
    CASE b.type = "RecurrenceBasis1d" -> RecurrenceBasis1d_scaled(b, first)
      [] b.type = "ScaledBasis1d" -> ScaledBasis1d_scaled(b, first)
      [] b.type = "PackedBasis2d" -> PackedBasis2d_scaled(b, first)
      [] b.type = "ScaledBasis2d" -> ScaledBasis2d_scaled(b, first)

sumWith(b, point, coefficients, mode, garbage) ==
    CASE b.type = "RecurrenceBasis1d" -> RecurrenceBasis1d_sumWith(b, point, coefficients, mode)
      [] b.type = "ScaledBasis1d" -> ScaledBasis1d_sumWith(b, point, coefficients, mode)
      [] b.type = "PackedBasis2d" -> PackedBasis2d_sumWith(b, point, coefficients, mode, garbage)
      [] b.type = "ScaledBasis2d" -> ScaledBasis2d_sumWith(b, point, coefficients, mode, garbage)

fill(b, point, out, garbage) ==
    CASE b.type = "RecurrenceBasis1d" -> RecurrenceBasis1d_fill(b, point, out)
      [] b.type = "ScaledBasis1d" -> ScaledBasis1d_fill(b, point, out)
      [] b.type = "PackedBasis2d" -> PackedBasis2d_fill(b, point, out, garbage)
      [] b.type = "ScaledBasis2d" -> ScaledBasis2d_fill(b, point, out, garbage)

applyForward(s, point) ==
    IF "scale" \in DOMAIN s THEN applyForward1d(s, point) ELSE applyForward2d(s, point)

\* No object: a variable that holds nothing yet, a call that returned nothing.
None == <<>>

(***************************************************************************)
(* Function1d.h, Function2d.h                                              *)
(***************************************************************************)
\* Function(basis, coefficients); the constructor asserts that the number
\* of coefficients is basis.size().
Function(b, coefficients) == [basis |-> b, coefficients |-> coefficients]

\* The number of coefficients a Function stores, _coefficients.size().
CoefficientCount(fn) == Cardinality(DOMAIN fn.coefficients)

\* assert(condition): a failed assertion ends the program unless the build
\* defines NDEBUG, where the condition is not evaluated.
AssertionFails(condition, ndebug) == ~ndebug /\ ~condition

\* explicit Function(Basis const & basis): zero-valued coefficients
FunctionZero(b) == Function(b, [m \in 0..(size(b) - 1) |-> R(0)])

\* The vector constructor without its assertion.
FunctionFromVector_unchecked(b, coefficients, ndebug) == Function(b, coefficients)

\* Function(Basis const & basis, Eigen::VectorXd const & coefficients); None
\* when the assertion fails.
FunctionFromVector(b, coefficients, ndebug) ==
    IF AssertionFails(size(b) = Cardinality(DOMAIN coefficients), ndebug)
    THEN None
    ELSE Function(b, coefficients)

\* Function(Basis const & basis, Iterator first, Iterator last), for a range
\* no longer than basis.size(): _coefficients(basis.size()) is not
\* initialized and std::copy overwrites its first elements. None when the
\* assertion fails.
FunctionFromRange(b, range, ndebug, garbage) ==
    IF AssertionFails(Len(range) = size(b), ndebug)
    THEN None
    ELSE Function(b, [m \in 0..(size(b) - 1) |->
                         IF m < Len(range) THEN range[m + 1] ELSE garbage])

FunctionSize(fn) == size(fn.basis)

\* operator()(point, mode)
FunctionCall(fn, point, mode, garbage) ==
    sumWith(fn.basis, point, fn.coefficients, mode, garbage)

\* scaled() constructing its result with zero-valued coefficients.
FunctionScaled_zeroCoefficients(fn, scaling) == FunctionZero(scaled(fn.basis, scaling))

FunctionScaled(fn, scaling) == Function(scaled(fn.basis, scaling), fn.coefficients)

Zero(len) == [m \in 0..(len - 1) |-> R(0)]

(***************************************************************************)
(* PolynomialFunction1d.cc, PolynomialFunction2d.cc: the expressions of    *)
(* simplified().                                                           *)
(***************************************************************************)
makeFunction1d(b, coefficients) == Function(b, coefficients)

makeFunction2d(b, coefficients) == Function(b, coefficients)

\* std::vector<SafeSum<double>> sums(basis.size())
SafeSums(len) == [m \in 0..(len - 1) |-> SafeSum(R(0))]

\* The 1-d term without the binomial coefficient.
Simplified1dTerm_noBinomial(fn, binom, sn, n, k, vk) ==
    RMul(RMul(sn, fn.coefficients[n]), vk)

\* sn*binomial(n, k)*f[n]*vk
Simplified1dTerm(fn, binom, sn, n, k, vk) ==
    RMul(RMul(RMul(sn, binomial(binom, n, k)), fn.coefficients[n]), vk)

\* for (int i = 1; i <= n; ++i) r[i] = r[i - 1]*x
RECURSIVE computePowersLoop(_, _, _, _)
computePowersLoop(r, x, n, i) ==
    IF i <= n
    THEN computePowersLoop([r EXCEPT ![i] = RMul(r[i - 1], x)], x, n, i + 1)
    ELSE r

\* computePowers with r[0] = x.
computePowers_fromX(x, n) == computePowersLoop([m \in 0..n |-> x], x, n, 1)

\* Eigen::VectorXd r(n + 1) is written in full before it is returned.
computePowers(x, n) == computePowersLoop([m \in 0..n |-> R(1)], x, n, 1)

\* tmp with the powers of the two scales exchanged.
Simplified2dTmp_scalesExchanged(fn, binom, i, j) ==
    LET b == fn.basis
        rPow == computePowers(b.scaling.x.scale, getOrder(b))
        sPow == computePowers(b.scaling.y.scale, getOrder(b))
        uPow == computePowers(b.scaling.x.shift, getOrder(b))
    IN  RMul(RMul(RMul(RMul(binomial(binom, i.nx, j), uPow[j]), fn.coefficients[i.flat]),
                  rPow[i.ny]), sPow[i.nx])

\* double tmp = binomial(i.nx, j)*uPow[j]*f[i.flat]*rPow[i.nx]*sPow[i.ny]
Simplified2dTmp(fn, binom, i, j) ==
    LET b == fn.basis
        rPow == computePowers(b.scaling.x.scale, getOrder(b))
        sPow == computePowers(b.scaling.y.scale, getOrder(b))
        uPow == computePowers(b.scaling.x.shift, getOrder(b))
    IN  RMul(RMul(RMul(RMul(binomial(binom, i.nx, j), uPow[j]), fn.coefficients[i.flat]),
                  rPow[i.nx]), sPow[i.ny])

\* binomial(i.ny, k)*vPow[k]*tmp
Simplified2dTerm(fn, binom, i, j, k) ==
    LET vPow == computePowers(fn.basis.scaling.y.shift, getOrder(fn.basis))
    IN  RMul(RMul(binomial(binom, i.ny, k), vPow[k]), Simplified2dTmp(fn, binom, i, j))

\* The cache built one order short.
SimplifiedBinomial_orderLessOne(fn) == BinomialMatrix(getOrder(fn.basis.nested) - 1)

\* BinomialMatrix binomial(basis.getNested().getOrder())
SimplifiedBinomial(fn) == BinomialMatrix(getOrder(fn.basis.nested))

(***************************************************************************)
(* State.                                                                  *)
(*   packing, order, index, visited: a range-based for loop over the       *)
(*     PackedIndexRange of a basis of the given order; index is the        *)
(*     iterator's _index and visited the values dereferenced so far.       *)
(*   nMax, matrix, lookup: a BinomialMatrix(nMax), its _matrix once        *)
(*     constructed and the last operator()(n, k) call with its result.     *)
(*   root, prev, basis, applied, call: a basis object `root`, the basis    *)
(*     obtained from it by the scaled() calls whose arguments are          *)
(*     `applied` (prev is the receiver of the last of them), and the last  *)
(*     fill/sumWith call made on `basis` with its result.                  *)
(*   f, sums, sn, vk, n, k, j, it, result, pc, ret: one execution of       *)
(*     simplified(f): its locals, its position pc and the Function it      *)
(*     returns; added lists the source terms added to the accumulators so  *)
(*     far and converted the accumulators converted to double so far.      *)
(*   affine, second, made, applyCall: two scalings of the same dimension,  *)
(*     the scaling last made from them (by then, inverted or               *)
(*     makeUnitRangeScaling) and the last applyForward/applyInverse call.  *)
(*   frame, nextCalls: one execution of RecurrenceBasis1d::fill or         *)
(*     ::sumWith, its arguments, locals and position, and the calls it has *)
(*     made to Recurrence::next so far.                                    *)
(*   ndebug, ctor, fn, fnFrom, fnCall: whether the build defines NDEBUG    *)
(*     (assert expands to nothing), the Function constructor call made and *)
(*     its outcome, the Function in hand, the receiver and argument of the *)
(*     scaled() call that returned it, and the last operator() call.       *)
(*   safe, naive, ops, before, inexact: a SafeSum<double>, a plain double  *)
(*     accumulated alongside, the operations applied to both, the SafeSum  *)
(*     before the last of them, and whether an addition has been rounded.  *)
(*   shared, lastCall, callers, workspaces: the basis and Function objects *)
(*     in existence, the last member function called on one of them, the   *)
(*     callers evaluating them (each with the position and locals of its   *)
(*     call) and the workspace each caller owns.                           *)
(***************************************************************************)
VARIABLES packing, order, index, visited,
          nMax, matrix, lookup,
          root, prev, basis, applied, call,
          f, sums, sn, vk, n, k, j, it, result, pc, ret, added, converted,
          affine, second, made, applyCall,
          frame, nextCalls,
          ndebug, ctor, fn, fnFrom, fnCall,
          safe, naive, ops, before, inexact,
          shared, lastCall, callers, workspaces

idxVars == <<packing, order, index, visited>>

binVars == <<nMax, matrix, lookup>>

basisVars == <<root, prev, basis, applied, call>>

simpVars == <<f, sums, sn, vk, n, k, j, it, result, pc, ret, added, converted>>

scalingVars == <<affine, second, made, applyCall>>

recurrenceVars == <<frame, nextCalls>>

functionVars == <<ndebug, ctor, fn, fnFrom, fnCall>>

safeSumVars == <<safe, naive, ops, before, inexact>>

evalVars == <<shared, lastCall, callers, workspaces>>

vars == <<idxVars, binVars, basisVars, simpVars, scalingVars, recurrenceVars, functionVars,
          safeSumVars, evalVars>>

IdleIndex ==
    /\ packing = "YX"
    /\ order = 0
    /\ index = IteratorBegin
    /\ visited = <<>>

IdleBinomial ==
    /\ nMax = 0
    /\ matrix = None
    /\ lookup = None

IdleBasis ==
    /\ root = None
    /\ prev = None
    /\ basis = None
    /\ applied = <<>>
    /\ call = None

IdleSimplified ==
    /\ f = None
    /\ sums = None
    /\ sn = R(1)
    /\ vk = R(1)
    /\ n = 0
    /\ k = 0
    /\ j = 0
    /\ it = IteratorBegin
    /\ result = None
    /\ pc = "idle"
    /\ ret = None
    /\ added = <<>>
    /\ converted = <<>>

IdleScaling ==
    /\ affine = None
    /\ second = None
    /\ made = None
    /\ applyCall = None

IdleRecurrence ==
    /\ frame = None
    /\ nextCalls = <<>>

IdleFunction ==
    /\ ndebug = FALSE
    /\ ctor = None
    /\ fn = None
    /\ fnFrom = None
    /\ fnCall = None

IdleSafeSum ==
    /\ safe = None
    /\ naive = None
    /\ ops = <<>>
    /\ before = None
    /\ inexact = FALSE

IdleEval ==
    /\ shared = <<>>
    /\ lastCall = None
    /\ callers = <<>>
    /\ workspaces = <<>>

(***************************************************************************)
(* Iteration over PackedIndexRange: for (auto const & index : range).      *)
(***************************************************************************)
IterCap == computeSize(MaxOrder) + 2

InitIndex ==
    /\ packing \in PackingOrder
    /\ order \in 0..MaxOrder
    /\ index = IteratorBegin
    /\ visited = <<>>
    /\ IdleBinomial /\ IdleBasis /\ IdleSimplified
    /\ IdleScaling /\ IdleRecurrence /\ IdleFunction
    /\ IdleSafeSum /\ IdleEval

\* One turn of the loop: the body sees *it, then ++it.
IndexStep ==
    /\ index # makeEnd(packing, order)
    /\ Len(visited) < IterCap
    /\ visited' = Append(visited, index)
    /\ index' = IteratorIncrement(packing, index)
    /\ UNCHANGED <<packing, order, binVars, basisVars, simpVars,
                 scalingVars, recurrenceVars, functionVars, safeSumVars, evalVars>>

NextIndex == IndexStep

SpecIndex == InitIndex /\ [][NextIndex]_vars

\* The loop keeps running until its condition it != end fails.
SpecIndexFair == SpecIndex /\ WF_vars(NextIndex)

IndexDone == index = makeEnd(packing, order)

(***************************************************************************)
(* Construction of a BinomialMatrix and lookups in it.                     *)
(***************************************************************************)
InitBinomial ==
    /\ nMax \in 0..MaxNMax
    /\ matrix = None
    /\ lookup = None
    /\ IdleIndex /\ IdleBasis /\ IdleSimplified
    /\ IdleScaling /\ IdleRecurrence /\ IdleFunction
    /\ IdleSafeSum /\ IdleEval

BinomialConstruct ==
    /\ matrix = None
    /\ matrix' = BinomialMatrix(nMax)
    /\ UNCHANGED <<nMax, lookup, idxVars, basisVars, simpVars,
                 scalingVars, recurrenceVars, functionVars, safeSumVars, evalVars>>

BinomialLookup ==
    /\ matrix # None
    /\ \E nn \in 0..nMax : \E kk \in 0..nn :
          lookup' = [n |-> nn, k |-> kk, value |-> binomial(matrix, nn, kk)]
    /\ UNCHANGED <<nMax, matrix, idxVars, basisVars, simpVars,
                 scalingVars, recurrenceVars, functionVars, safeSumVars, evalVars>>

NextBinomial == BinomialConstruct \/ BinomialLookup

SpecBinomial == InitBinomial /\ [][NextBinomial]_vars

(***************************************************************************)
(* Bases, scaled() and evaluation.  The inputs of the calls are drawn from *)
(* the small sets below.                                                   *)
(***************************************************************************)
Points1d == {R(0), R(2), Rat(0 - 3, 2)}

Points2d == {Point2D(R(2), R(0 - 1)), Point2D(Rat(1, 2), R(0))}

Scalings1d == {Scaling1d(R(2), R(0 - 1)), Scaling1d(Rat(0 - 1, 2), Rat(3, 2))}

Scalings2d ==
    {Scaling2d(Scaling1d(R(2), R(0 - 1)), Scaling1d(Rat(1, 2), R(1))),
     Scaling2d(Scaling1d(R(0 - 1), Rat(3, 2)), Scaling1d(R(3), R(0)))}

\* Coefficient vectors of a given length: 1, 2, 3, ...; 2, -3, 4, ...; and
\* the unit vector of the last element.
CoefficientVectors(len) ==
    {[m \in 0..(len - 1) |-> R(m + 1)],
     [m \in 0..(len - 1) |-> IF m % 2 = 0 THEN R(m + 2) ELSE R(0 - (m + 2))],
     [m \in 0..(len - 1) |-> IF m = len - 1 THEN R(1) ELSE R(0)]}

\* What uninitialized workspace memory may hold.
Garbage == {R(0), R(7)}

UnitRangeBox == [min |-> Point2D(R(0 - 3), R(0 - 1)), max |-> Point2D(R(1), R(3))]

RootBases ==
    {RecurrenceBasis1d(rec, o) : rec \in Recurrences, o \in 0..MaxBasisOrder}
    \cup {ScaledBasis1dRange(rec, o, R(0 - 1), R(3)) :
              rec \in Recurrences, o \in 0..MaxBasisOrder}
    \cup {PackedBasis2d(RecurrenceBasis1d(rec, o), p) :
              rec \in Recurrences, o \in 0..MaxBasisOrder, p \in PackingOrder}
    \cup {ScaledBasis2dBox(rec, p, o, UnitRangeBox) :
              rec \in Recurrences, o \in 0..MaxBasisOrder, p \in PackingOrder}

PointsOf(b) == IF Is2d(b) THEN Points2d ELSE Points1d

ScalingsOf(b) == IF Is2d(b) THEN Scalings2d ELSE Scalings1d

InitBasis ==
    /\ root \in RootBases
    /\ prev = root
    /\ basis = root
    /\ applied = <<>>
    /\ call = None
    /\ IdleIndex /\ IdleBinomial /\ IdleSimplified
    /\ IdleScaling /\ IdleRecurrence /\ IdleFunction
    /\ IdleSafeSum /\ IdleEval

\* basis.scaled(first)
BasisScaled ==
    /\ Len(applied) < MaxScalings
    /\ \E first \in ScalingsOf(basis) :
          /\ basis' = scaled(basis, first)
          /\ applied' = Append(applied, first)
    /\ prev' = basis
    /\ call' = None
    /\ UNCHANGED <<root, idxVars, binVars, simpVars,
                 scalingVars, recurrenceVars, functionVars, safeSumVars, evalVars>>

\* basis.sumWith(point, coefficients, mode)
BasisSumWith ==
    /\ \E point \in PointsOf(basis), c \in CoefficientVectors(size(basis)),
          mode \in SumMode, g \in Garbage :
          call' = [op |-> "sumWith", point |-> point, coefficients |-> c, mode |-> mode,
                   result |-> sumWith(basis, point, c, mode, g)]
    /\ UNCHANGED <<root, prev, basis, applied, idxVars, binVars, simpVars,
                 scalingVars, recurrenceVars, functionVars, safeSumVars, evalVars>>

\* std::vector<double> out(basis.size(), 0.0); basis.fill(point, out)
BasisFill ==
    /\ \E point \in PointsOf(basis), g \in Garbage :
          call' = [op |-> "fill", point |-> point,
                   out |-> fill(basis, point, Zero(size(basis)), g)]
    /\ UNCHANGED <<root, prev, basis, applied, idxVars, binVars, simpVars,
                 scalingVars, recurrenceVars, functionVars, safeSumVars, evalVars>>

NextBasis == BasisScaled \/ BasisSumWith \/ BasisFill

SpecBasis == InitBasis /\ [][NextBasis]_vars

(***************************************************************************)
(* simplified(ScaledPolynomialFunction1d const & f), statement by          *)
(* statement.                                                              *)
(***************************************************************************)
SimplifyScalings1d == Scalings1d \cup {Scaling1d(R(1), R(0)), Scaling1d(R(3), R(0))}

SimplifyScalings2d ==
    Scalings2d \cup {Scaling2d(Scaling1d(R(1), R(0)), Scaling1d(R(1), R(0))),
                     Scaling2d(Scaling1d(R(3), R(0)), Scaling1d(R(0 - 2), R(0)))}

ScaledPolynomialFunctions1d ==
    UNION {{Function(ScaledBasis1d(RecurrenceBasis1d("Polynomial", o), s), c) :
               s \in SimplifyScalings1d, c \in CoefficientVectors(o + 1)} :
           o \in 0..MaxSimplifiedOrder1d}

InitSimplified1d ==
    /\ f \in ScaledPolynomialFunctions1d
    /\ sums = SafeSums(size(f.basis))
    /\ sn = R(1)
    /\ vk = R(1)
    /\ n = 0
    /\ k = 0
    /\ j = 0
    /\ it = IteratorBegin
    /\ result = None
    /\ pc = "sum"
    /\ ret = None
    /\ added = <<>>
    /\ converted = <<>>
    /\ IdleIndex /\ IdleBinomial /\ IdleBasis
    /\ IdleScaling /\ IdleRecurrence /\ IdleFunction
    /\ IdleSafeSum /\ IdleEval

\* sums[n - k] += sn*binomial(n, k)*f[n]*vk;  ++k, vk *= v
Simplified1dAdd ==
    /\ pc = "sum" /\ n < size(f.basis) /\ k <= n
    /\ sums' = [sums EXCEPT ![n - k] =
                    SafeSumAdd(@, Simplified1dTerm(f, SimplifiedBinomial(f), sn, n, k, vk))]
    /\ k' = k + 1
    /\ vk' = RMul(vk, f.basis.scaling.shift)
    /\ added' = Append(added, <<n, k>>)
    /\ UNCHANGED converted
    /\ UNCHANGED <<f, sn, n, j, it, result, pc, ret, idxVars, binVars, basisVars,
                 scalingVars, recurrenceVars, functionVars, safeSumVars, evalVars>>

\* the inner loop is over: ++n, sn *= s; double vk = 1; k = 0
Simplified1dNextN ==
    /\ pc = "sum" /\ n < size(f.basis) /\ k > n
    /\ n' = n + 1
    /\ sn' = RMul(sn, f.basis.scaling.scale)
    /\ vk' = R(1)
    /\ k' = 0
    /\ UNCHANGED <<added, converted>>
    /\ UNCHANGED <<f, sums, j, it, result, pc, ret, idxVars, binVars, basisVars,
                 scalingVars, recurrenceVars, functionVars, safeSumVars, evalVars>>

\* the outer loop is over: result = Eigen::VectorXd::Zero(basis.size()); n = 0
Simplified1dZero ==
    /\ pc = "sum" /\ n >= size(f.basis)
    /\ result' = Zero(size(f.basis))
    /\ n' = 0
    /\ pc' = "read"
    /\ UNCHANGED <<added, converted>>
    /\ UNCHANGED <<f, sums, sn, vk, k, j, it, ret, idxVars, binVars, basisVars,
                 scalingVars, recurrenceVars, functionVars, safeSumVars, evalVars>>

\* result[n] = static_cast<double>(sums[n]); ++n
Simplified1dRead ==
    /\ pc = "read" /\ n < size(f.basis)
    /\ result' = [result EXCEPT ![n] = SafeSumValue(sums[n])]
    /\ n' = n + 1
    /\ converted' = Append(converted, n)
    /\ UNCHANGED added
    /\ UNCHANGED <<f, sums, sn, vk, k, j, it, pc, ret, idxVars, binVars, basisVars,
                 scalingVars, recurrenceVars, functionVars, safeSumVars, evalVars>>

\* return makeFunction1d(basis.getNested(), result)
Simplified1dReturn ==
    /\ pc = "read" /\ n >= size(f.basis)
    /\ ret' = makeFunction1d(f.basis.nested, result)
    /\ pc' = "done"
    /\ UNCHANGED <<added, converted>>
    /\ UNCHANGED <<f, sums, sn, vk, n, k, j, it, result, idxVars, binVars, basisVars,
                 scalingVars, recurrenceVars, functionVars, safeSumVars, evalVars>>

NextSimplified1d ==
    \/ Simplified1dAdd
    \/ Simplified1dNextN
    \/ Simplified1dZero
    \/ Simplified1dRead
    \/ Simplified1dReturn

SpecSimplified1d == InitSimplified1d /\ [][NextSimplified1d]_vars

(***************************************************************************)
(* simplified(ScaledPolynomialFunction2d<packing> const & f), statement by *)
(* statement.  `it` is the iterator of the range-based for loop over       *)
(* basis.getIndices().                                                     *)
(***************************************************************************)
ScaledPolynomialFunctions2d ==
    UNION {{Function(ScaledBasis2d(PackedBasis2d(RecurrenceBasis1d("Polynomial", o), p), s), c) :
               s \in SimplifyScalings2d, c \in CoefficientVectors(computeSize(o))} :
           <<o, p>> \in (0..MaxSimplifiedOrder2d) \X PackingOrder}

Simplified2dEnd == makeEnd(f.basis.nested.packing, getOrder(f.basis))

InitSimplified2d ==
    /\ f \in ScaledPolynomialFunctions2d
    /\ sums = SafeSums(size(f.basis))
    /\ sn = R(1)
    /\ vk = R(1)
    /\ n = 0
    /\ k = 0
    /\ j = 0
    /\ it = IteratorBegin
    /\ result = None
    /\ pc = "sum"
    /\ ret = None
    /\ added = <<>>
    /\ converted = <<>>
    /\ IdleIndex /\ IdleBinomial /\ IdleBasis
    /\ IdleScaling /\ IdleRecurrence /\ IdleFunction
    /\ IdleSafeSum /\ IdleEval

\* sums[basis.index(i.nx - j, i.ny - k)] += binomial(i.ny, k)*vPow[k]*tmp; ++k
Simplified2dAdd ==
    /\ pc = "sum" /\ it # Simplified2dEnd /\ j <= it.nx /\ k <= it.ny
    /\ sums' = [sums EXCEPT ![ScaledBasis2d_index(f.basis, it.nx - j, it.ny - k)] =
                    SafeSumAdd(@, Simplified2dTerm(f, SimplifiedBinomial(f), it, j, k))]
    /\ k' = k + 1
    /\ added' = Append(added, <<it.flat, j, k>>)
    /\ UNCHANGED converted
    /\ UNCHANGED <<f, sn, vk, n, j, it, result, pc, ret, idxVars, binVars, basisVars,
                 scalingVars, recurrenceVars, functionVars, safeSumVars, evalVars>>

\* the k loop is over: ++j; k = 0
Simplified2dNextJ ==
    /\ pc = "sum" /\ it # Simplified2dEnd /\ j <= it.nx /\ k > it.ny
    /\ j' = j + 1
    /\ k' = 0
    /\ UNCHANGED <<added, converted>>
    /\ UNCHANGED <<f, sums, sn, vk, n, it, result, pc, ret, idxVars, binVars, basisVars,
                 scalingVars, recurrenceVars, functionVars, safeSumVars, evalVars>>

\* the j loop is over: ++it; j = 0; k = 0
Simplified2dNextIndex ==
    /\ pc = "sum" /\ it # Simplified2dEnd /\ j > it.nx
    /\ it.flat < IterCap
    /\ it' = IteratorIncrement(f.basis.nested.packing, it)
    /\ j' = 0
    /\ k' = 0
    /\ UNCHANGED <<added, converted>>
    /\ UNCHANGED <<f, sums, sn, vk, n, result, pc, ret, idxVars, binVars, basisVars,
                 scalingVars, recurrenceVars, functionVars, safeSumVars, evalVars>>

\* The summation loop left as soon as the last index is reached.
Simplified2dZero_beforeLastIndex ==
    /\ pc = "sum" /\ it.flat + 1 >= size(f.basis)
    /\ result' = Zero(size(f.basis))
    /\ n' = 0
    /\ pc' = "read"
    /\ UNCHANGED <<added, converted>>
    /\ UNCHANGED <<f, sums, sn, vk, k, j, it, ret, idxVars, binVars, basisVars,
                 scalingVars, recurrenceVars, functionVars, safeSumVars, evalVars>>

\* the loop over the indices is over: result = Zero(basis.size()); i = 0
Simplified2dZero ==
    /\ pc = "sum" /\ it = Simplified2dEnd
    /\ result' = Zero(size(f.basis))
    /\ n' = 0
    /\ pc' = "read"
    /\ UNCHANGED <<added, converted>>
    /\ UNCHANGED <<f, sums, sn, vk, k, j, it, ret, idxVars, binVars, basisVars,
                 scalingVars, recurrenceVars, functionVars, safeSumVars, evalVars>>

\* result[i] = static_cast<double>(sums[i]); ++i
Simplified2dRead ==
    /\ pc = "read" /\ n < size(f.basis)
    /\ result' = [result EXCEPT ![n] = SafeSumValue(sums[n])]
    /\ n' = n + 1
    /\ converted' = Append(converted, n)
    /\ UNCHANGED added
    /\ UNCHANGED <<f, sums, sn, vk, k, j, it, pc, ret, idxVars, binVars, basisVars,
                 scalingVars, recurrenceVars, functionVars, safeSumVars, evalVars>>

\* return makeFunction2d(basis.getNested(), result)
Simplified2dReturn ==
    /\ pc = "read" /\ n >= size(f.basis)
    /\ ret' = makeFunction2d(f.basis.nested, result)
    /\ pc' = "done"
    /\ UNCHANGED <<added, converted>>
    /\ UNCHANGED <<f, sums, sn, vk, n, k, j, it, result, idxVars, binVars, basisVars,
                 scalingVars, recurrenceVars, functionVars, safeSumVars, evalVars>>

NextSimplified2d ==
    \/ Simplified2dAdd
    \/ Simplified2dNextJ
    \/ Simplified2dNextIndex
    \/ Simplified2dZero
    \/ Simplified2dRead
    \/ Simplified2dReturn

SpecSimplified2d == InitSimplified2d /\ [][NextSimplified2d]_vars

(***************************************************************************)
(* simplified() in either dimension: the overload is chosen by the type of *)
(* f.                                                                      *)
(***************************************************************************)
InitSimplified == InitSimplified1d \/ InitSimplified2d

NextSimplified ==
    \/ ~Is2d(f.basis) /\ NextSimplified1d
    \/ Is2d(f.basis) /\ NextSimplified2d

SpecSimplified == InitSimplified /\ [][NextSimplified]_vars

(***************************************************************************)
(* Scalings: construction, then(), inverted(), makeUnitRangeScaling and    *)
(* applyForward/applyInverse calls on the scalings so obtained.            *)
(***************************************************************************)
Is1dScaling(s) == "scale" \in DOMAIN s

applyInverse(s, point) ==
    IF Is1dScaling(s) THEN applyInverse1d(s, point) ELSE applyInverse2d(s, point)

inverted(s) == IF Is1dScaling(s) THEN inverted1d(s) ELSE inverted2d(s)

then(s, other) == IF Is1dScaling(s) THEN then1d(s, other) ELSE then2d(s, other)

\* Scaling1d(scale, shift) with a non-zero scale.
GivenScalings1d ==
    {Scaling1d(R(2), Rat(0 - 1, 2)), Scaling1d(Rat(0 - 1, 2), R(0 - 1)),
     Scaling1d(R(3), R(0)), Scaling1d(R(1), R(0))}

\* Scaling2d(x, y)
GivenScalings2d ==
    {Scaling2d(Scaling1d(R(2), Rat(1, 2)), Scaling1d(Rat(0 - 1, 2), R(0 - 1))),
     Scaling2d(Scaling1d(R(0 - 1), Rat(3, 2)), Scaling1d(R(3), R(0)))}

\* (min, max) with min # max
GivenRanges1d == {[min |-> Rat(0 - 1, 2), max |-> R(2)], [min |-> R(3), max |-> R(0 - 1)]}

\* Box2D(min, max), not empty
GivenBoxes ==
    {[min |-> Point2D(Rat(0 - 1, 2), R(0 - 2)), max |-> Point2D(R(2), R(1))],
     [min |-> Point2D(R(0 - 3), R(0 - 1)), max |-> Point2D(R(1), R(3))]}

ScalingPoints1d == {R(0 - 1), R(1), Rat(0 - 1, 2), R(2), R(3), R(0)}

ScalingPoints2d ==
    {Point2D(x, y) : x \in {R(0 - 1), R(1)}, y \in {R(0 - 1), R(1)}}
    \cup {Point2D(x, y) : x \in {Rat(0 - 1, 2), R(2)}, y \in {R(0 - 2), R(1)}}
    \cup {Point2D(x, y) : x \in {R(0 - 3), R(1)}, y \in {R(0 - 1), R(3)}}

ScalingPointsOf(s) == IF Is1dScaling(s) THEN ScalingPoints1d ELSE ScalingPoints2d

InitScaling ==
    /\ affine \in GivenScalings1d \cup GivenScalings2d
    /\ second \in (IF Is1dScaling(affine) THEN GivenScalings1d ELSE GivenScalings2d)
    /\ made = None
    /\ applyCall = None
    /\ IdleIndex /\ IdleBinomial /\ IdleBasis /\ IdleSimplified
    /\ IdleRecurrence /\ IdleFunction
    /\ IdleSafeSum /\ IdleEval

\* auto inverse = affine.inverted()
ScalingInverted ==
    /\ made' = [op |-> "inverted", a |-> affine, b |-> None, result |-> inverted(affine)]
    /\ applyCall' = None
    /\ UNCHANGED <<affine, second, idxVars, binVars, basisVars, simpVars,
                   recurrenceVars, functionVars, safeSumVars, evalVars>>

\* affine.then(second), or affine.then(inverse) for the inverse just made
ScalingThen ==
    /\ \E other \in {second} \cup (IF made # None /\ made.op = "inverted"
                                   THEN {made.result} ELSE {}) :
          made' = [op |-> "then", a |-> affine, b |-> other, result |-> then(affine, other)]
    /\ applyCall' = None
    /\ UNCHANGED <<affine, second, idxVars, binVars, basisVars, simpVars,
                   recurrenceVars, functionVars, safeSumVars, evalVars>>

\* auto toUnitRange = makeUnitRangeScaling1d(min, max), makeUnitRangeScaling2d(box)
ScalingMakeUnitRange ==
    /\ \/ /\ Is1dScaling(affine)
          /\ \E range \in GivenRanges1d :
                made' = [op |-> "makeUnitRange", a |-> range, b |-> None,
                         result |-> makeUnitRangeScaling1d(range.min, range.max)]
       \/ /\ ~Is1dScaling(affine)
          /\ \E box \in GivenBoxes :
                made' = [op |-> "makeUnitRange", a |-> box, b |-> None,
                         result |-> makeUnitRangeScaling2d(box)]
    /\ applyCall' = None
    /\ UNCHANGED <<affine, second, idxVars, binVars, basisVars, simpVars,
                   recurrenceVars, functionVars, safeSumVars, evalVars>>

\* s.applyForward(x) or s.applyInverse(x) for s = affine or the scaling made,
\* at a given point or at the value the previous call returned.
ScalingApply ==
    /\ \E on \in {"affine"} \cup (IF made # None THEN {"made"} ELSE {}),
          dir \in {"forward", "inverse"}, chained \in BOOLEAN :
          LET s == IF on = "affine" THEN affine ELSE made.result
          IN  /\ chained => (applyCall # None /\ applyCall.from = None)
              /\ \E x \in (IF chained THEN {applyCall.y} ELSE ScalingPointsOf(s)) :
                    applyCall' =
                        [on |-> on, dir |-> dir, x |-> x,
                         y |-> IF dir = "forward" THEN applyForward(s, x)
                                                  ELSE applyInverse(s, x),
                         from |-> IF chained
                                  THEN [on |-> applyCall.on, dir |-> applyCall.dir,
                                        x |-> applyCall.x]
                                  ELSE None]
    /\ UNCHANGED <<affine, second, made, idxVars, binVars, basisVars, simpVars,
                   recurrenceVars, functionVars, safeSumVars, evalVars>>

NextScaling == ScalingInverted \/ ScalingThen \/ ScalingMakeUnitRange \/ ScalingApply

SpecScaling == InitScaling /\ [][NextScaling]_vars

(***************************************************************************)
(* RecurrenceBasis1d::fill and ::sumWith, statement by statement.          *)
(***************************************************************************)
RecurrencePoints ==
    {R(0 - 1), Rat(0 - 1, 2), R(0), Rat(1, 2), R(1), R(2), Rat(0 - 3, 2)}

\* A call basis.fill(x, out) with out of basis.size() zeros, or a call
\* basis.sumWith(x, coefficients, mode), about to execute its first statement.
RecurrenceFrames ==
    {[op |-> "fill", basis |-> RecurrenceBasis1d(rec, o), x |-> x,
      coefficients |-> None, mode |-> "FAST", out |-> Zero(o + 1), sum |-> None,
      n |-> 0, current |-> None, previous |-> None, pc |-> "b0"] :
         rec \in Recurrences, o \in 0..MaxRecurrenceOrder, x \in RecurrencePoints}
    \cup
    UNION {{[op |-> "sumWith", basis |-> RecurrenceBasis1d(rec, o), x |-> x,
             coefficients |-> c, mode |-> mode, out |-> None, sum |-> None,
             n |-> 0, current |-> None, previous |-> None, pc |-> "b0"] :
                c \in CoefficientVectors(o + 1), mode \in SumMode} :
              rec \in Recurrences, o \in 0..MaxRecurrenceOrder, x \in RecurrencePoints}

InitRecurrence ==
    /\ frame \in RecurrenceFrames
    /\ nextCalls = <<>>
    /\ IdleIndex /\ IdleBinomial /\ IdleBasis /\ IdleSimplified
    /\ IdleScaling /\ IdleFunction
    /\ IdleSafeSum /\ IdleEval

\* The call Recurrence::next(x, m, current, previous) and the index of the
\* basis function its result is used as.
NextCall(fr, m, current, previous) ==
    [n |-> m, current |-> current, previous |-> previous,
     returned |-> next(fr.basis.recurrence, fr.x, m, current, previous), usedAs |-> m]

\* basis[0] = Recurrence::getB0(x); if (_order > 0u)
RecurrenceFillB0 ==
    /\ frame.op = "fill" /\ frame.pc = "b0"
    /\ frame' = [frame EXCEPT !.out[0] = getB0(frame.basis.recurrence, frame.x),
                              !.pc = IF frame.basis.order > 0 THEN "b1" ELSE "done"]
    /\ UNCHANGED <<nextCalls, idxVars, binVars, basisVars, simpVars, scalingVars,
                   functionVars, safeSumVars, evalVars>>

\* basis[1] = Recurrence::getB1(x); n = 2
RecurrenceFillB1 ==
    /\ frame.op = "fill" /\ frame.pc = "b1"
    /\ frame' = [frame EXCEPT !.out[1] = getB1(frame.basis.recurrence, frame.x),
                              !.n = 2, !.pc = "loop"]
    /\ UNCHANGED <<nextCalls, idxVars, binVars, basisVars, simpVars, scalingVars,
                   functionVars, safeSumVars, evalVars>>

\* n <= _order: basis[n] = Recurrence::next(x, n, basis[n - 1], basis[n - 2]); ++n
RecurrenceFillNext ==
    /\ frame.op = "fill" /\ frame.pc = "loop" /\ frame.n <= frame.basis.order
    /\ LET c == NextCall(frame, frame.n, frame.out[frame.n - 1], frame.out[frame.n - 2])
       IN  /\ nextCalls' = Append(nextCalls, c)
           /\ frame' = [frame EXCEPT !.out[frame.n] = c.returned, !.n = frame.n + 1]
    /\ UNCHANGED <<idxVars, binVars, basisVars, simpVars, scalingVars, functionVars, safeSumVars, evalVars>>

\* double z = Recurrence::getB0(x)*coefficients[0] (or SafeSum<double> z), then
\* in accumulate: double previous = Recurrence::getB0(x); if (_order > 0u)
RecurrenceSumB0 ==
    /\ frame.op = "sumWith" /\ frame.pc = "b0"
    /\ LET z == RMul(getB0(frame.basis.recurrence, frame.x), frame.coefficients[0])
       IN  frame' = [frame EXCEPT !.sum = IF frame.mode = "FAST" THEN z ELSE SafeSum(z),
                                  !.previous = getB0(frame.basis.recurrence, frame.x),
                                  !.pc = IF frame.basis.order > 0 THEN "b1" ELSE "result"]
    /\ UNCHANGED <<nextCalls, idxVars, binVars, basisVars, simpVars, scalingVars,
                   functionVars, safeSumVars, evalVars>>

\* double current = Recurrence::getB1(x); sum += coefficients[1]*current; n = 2
RecurrenceSumB1 ==
    /\ frame.op = "sumWith" /\ frame.pc = "b1"
    /\ LET current == getB1(frame.basis.recurrence, frame.x)
       IN  frame' = [frame EXCEPT !.current = current,
                                  !.sum = Accumulate(frame.mode, frame.sum,
                                                     RMul(frame.coefficients[1], current)),
                                  !.n = 2, !.pc = "loop"]
    /\ UNCHANGED <<nextCalls, idxVars, binVars, basisVars, simpVars, scalingVars,
                   functionVars, safeSumVars, evalVars>>

\* n <= _order: double next = Recurrence::next(x, n, current, previous);
\* sum += coefficients[n]*next; previous = current; current = next; ++n
RecurrenceSumNext ==
    /\ frame.op = "sumWith" /\ frame.pc = "loop" /\ frame.n <= frame.basis.order
    /\ LET c == NextCall(frame, frame.n, frame.current, frame.previous)
       IN  /\ nextCalls' = Append(nextCalls, c)
           /\ frame' = [frame EXCEPT !.sum = Accumulate(frame.mode, frame.sum,
                                                        RMul(frame.coefficients[frame.n],
                                                             c.returned)),
                                     !.previous = frame.current,
                                     !.current = c.returned,
                                     !.n = frame.n + 1]
    /\ UNCHANGED <<idxVars, binVars, basisVars, simpVars, scalingVars, functionVars, safeSumVars, evalVars>>

\* n > _order: the loop, and with it fill or accumulate, ends.
RecurrenceLoopEnd ==
    /\ frame.pc = "loop" /\ frame.n > frame.basis.order
    /\ frame' = [frame EXCEPT !.pc = IF frame.op = "fill" THEN "done" ELSE "result"]
    /\ UNCHANGED <<nextCalls, idxVars, binVars, basisVars, simpVars, scalingVars,
                   functionVars, safeSumVars, evalVars>>

\* result = z, or result = static_cast<double>(z); return result
RecurrenceSumReturn ==
    /\ frame.op = "sumWith" /\ frame.pc = "result"
    /\ frame' = [frame EXCEPT !.sum = IF frame.mode = "FAST" THEN frame.sum
                                                             ELSE SafeSumValue(frame.sum),
                              !.pc = "done"]
    /\ UNCHANGED <<nextCalls, idxVars, binVars, basisVars, simpVars, scalingVars,
                   functionVars, safeSumVars, evalVars>>

NextRecurrence ==
    \/ RecurrenceFillB0 \/ RecurrenceFillB1 \/ RecurrenceFillNext
    \/ RecurrenceSumB0 \/ RecurrenceSumB1 \/ RecurrenceSumNext
    \/ RecurrenceLoopEnd \/ RecurrenceSumReturn

SpecRecurrence == InitRecurrence /\ [][NextRecurrence]_vars

(***************************************************************************)
(* Function1d, Function2d: one constructor call, then scaled() and         *)
(* operator() calls on the Function it returned.                           *)
(***************************************************************************)
FunctionBases == {b \in RootBases : getOrder(b) <= MaxFunctionOrder}

\* Coefficient collections handed to a constructor: of basis.size()
\* elements, and of one less and one more.
GivenCoefficients(b) ==
    CoefficientVectors(size(b))
    \cup {[m \in 0..(len - 1) |-> R(m + 1)] : len \in {size(b) - 1, size(b) + 1}}

\* The iterator range [first, last) over the elements of a collection.
RangeOf(c) == [i \in 1..Cardinality(DOMAIN c) |-> c[i - 1]]

Constructed(kind, b, length, built) ==
    [kind |-> kind, basis |-> b, length |-> length,
     outcome |-> IF built = None THEN "assertion failed" ELSE "constructed"]

InitFunction ==
    /\ ndebug \in BOOLEAN
    /\ ctor = None
    /\ fn = None
    /\ fnFrom = None
    /\ fnCall = None
    /\ IdleIndex /\ IdleBinomial /\ IdleBasis /\ IdleSimplified
    /\ IdleScaling /\ IdleRecurrence
    /\ IdleSafeSum /\ IdleEval

\* Function func(basis)
FunctionConstructZero ==
    /\ ctor = None
    /\ \E b \in FunctionBases :
          /\ fn' = FunctionZero(b)
          /\ ctor' = Constructed("zero", b, size(b), fn')
    /\ UNCHANGED <<ndebug, fnFrom, fnCall, idxVars, binVars, basisVars, simpVars,
                   scalingVars, recurrenceVars, safeSumVars, evalVars>>

\* Function func(basis, coefficients)
FunctionConstructFromVector ==
    /\ ctor = None
    /\ \E b \in FunctionBases :
          \E c \in GivenCoefficients(b) :
              /\ fn' = FunctionFromVector(b, c, ndebug)
              /\ ctor' = Constructed("vector", b, Cardinality(DOMAIN c), fn')
    /\ UNCHANGED <<ndebug, fnFrom, fnCall, idxVars, binVars, basisVars, simpVars,
                   scalingVars, recurrenceVars, safeSumVars, evalVars>>

\* Function func(basis, first, last). When the assertion is compiled out and
\* the range is longer than basis.size(), std::copy writes past the end of
\* _coefficients: the constructor returns with the buffer filled from the
\* front of the range, or the program crashes.
FunctionConstructFromRange ==
    /\ ctor = None
    /\ \E b \in FunctionBases, g \in Garbage :
          \E c \in GivenCoefficients(b) :
              LET range == RangeOf(c)
              IN  IF ndebug /\ Len(range) > size(b)
                  THEN \/ /\ fn' = FunctionFromRange(b, SubSeq(range, 1, size(b)), ndebug, g)
                          /\ ctor' = Constructed("range", b, Len(range), fn')
                       \/ /\ fn' = None
                          /\ ctor' = [kind |-> "range", basis |-> b, length |-> Len(range),
                                      outcome |-> "crashed"]
                  ELSE /\ fn' = FunctionFromRange(b, range, ndebug, g)
                       /\ ctor' = Constructed("range", b, Len(range), fn')
    /\ UNCHANGED <<ndebug, fnFrom, fnCall, idxVars, binVars, basisVars, simpVars,
                   scalingVars, recurrenceVars, safeSumVars, evalVars>>

\* auto tFunc = func.scaled(scaling)
FunctionScaledStep ==
    /\ fn # None
    /\ (IF fnFrom = None THEN 0 ELSE fnFrom.depth) < MaxFunctionScalings
    /\ \E s \in ScalingsOf(fn.basis) :
          /\ fn' = FunctionScaled(fn, s)
          /\ fnFrom' = [receiver |-> fn, scaling |-> s,
                        depth |-> IF fnFrom = None THEN 1 ELSE fnFrom.depth + 1]
    /\ fnCall' = None
    /\ UNCHANGED <<ndebug, ctor, idxVars, binVars, basisVars, simpVars,
                   scalingVars, recurrenceVars, safeSumVars, evalVars>>

\* func(point, mode). A Function that stores fewer than basis.size()
\* coefficients has sumWith read past the end of _coefficients: the call
\* sums whatever that memory holds, or the program crashes.
FunctionCallStep ==
    /\ fn # None
    /\ \E point \in PointsOf(fn.basis), mode \in SumMode, g \in Garbage :
          IF CoefficientCount(fn) >= FunctionSize(fn)
          THEN fnCall' = [point |-> point, mode |-> mode, crashed |-> FALSE,
                          result |-> FunctionCall(fn, point, mode, g)]
          ELSE \/ \E beyond \in Garbage :
                     fnCall' =
                         [point |-> point, mode |-> mode, crashed |-> FALSE,
                          result |->
                              FunctionCall(
                                  Function(fn.basis,
                                           [m \in 0..(FunctionSize(fn) - 1) |->
                                               IF m < CoefficientCount(fn)
                                               THEN fn.coefficients[m] ELSE beyond]),
                                  point, mode, g)]
               \/ fnCall' = [point |-> point, mode |-> mode, crashed |-> TRUE,
                             result |-> None]
    /\ UNCHANGED <<ndebug, ctor, fn, fnFrom, idxVars, binVars, basisVars, simpVars,
                   scalingVars, recurrenceVars, safeSumVars, evalVars>>

NextFunction ==
    \/ FunctionConstructZero \/ FunctionConstructFromVector \/ FunctionConstructFromRange
    \/ FunctionScaledStep \/ FunctionCallStep

SpecFunction == InitFunction /\ [][NextFunction]_vars

(***************************************************************************)
(* A SafeSum<double> s and a plain double accumulated side by side: the    *)
(* same +=, -= and = are applied to both.                                  *)
(***************************************************************************)
One == DoubleOfInt(1)

Big == Double(74505805, 130088960)      \* 1e16

SummedValues == {One, Big, DoubleNeg(Big), DoubleOfInt(3)}

AssignedValues == {DoubleZero, Big}

\* Whether one of the additions made by s += value on z is rounded.
PlusAssignRounds(z, value) ==
    LET t == DoubleAdd(z.sum, value)
        big == IF DoubleGeq(DoubleAbs(z.sum), DoubleAbs(value)) THEN z.sum ELSE value
        small == IF DoubleGeq(DoubleAbs(z.sum), DoubleAbs(value)) THEN value ELSE z.sum
    IN  \/ AddRounds(z.sum, value)
        \/ AddRounds(big, DoubleNeg(t))
        \/ AddRounds(DoubleSub(big, t), small)
        \/ AddRounds(z.correction, DoubleAdd(DoubleSub(big, t), small))

InitSafeSum ==
    /\ \E initial \in AssignedValues :
          /\ safe = SafeSumDouble(initial)
          /\ naive = initial
          /\ ops = <<[op |-> "init", value |-> initial]>>
    /\ before = None
    /\ inexact = FALSE
    /\ IdleIndex /\ IdleBinomial /\ IdleBasis /\ IdleSimplified
    /\ IdleScaling /\ IdleRecurrence /\ IdleFunction
    /\ IdleEval

\* s += value;
SafeSumPlusAssign ==
    /\ Len(ops) <= MaxSafeSumOps
    /\ \E value \in SummedValues :
          /\ safe' = SafeSumDoubleAdd(safe, value)
          /\ naive' = DoubleAdd(naive, value)
          /\ ops' = Append(ops, [op |-> "+=", value |-> value])
          /\ inexact' = (inexact \/ PlusAssignRounds(safe, value))
    /\ before' = safe
    /\ UNCHANGED <<idxVars, binVars, basisVars, simpVars, scalingVars, recurrenceVars,
                   functionVars, evalVars>>

\* s -= value;
SafeSumMinusAssign ==
    /\ Len(ops) <= MaxSafeSumOps
    /\ \E value \in SummedValues :
          /\ safe' = SafeSumDoubleSub(safe, value)
          /\ naive' = DoubleSub(naive, value)
          /\ ops' = Append(ops, [op |-> "-=", value |-> value])
          /\ inexact' = (inexact \/ PlusAssignRounds(safe, DoubleNeg(value)))
    /\ before' = safe
    /\ UNCHANGED <<idxVars, binVars, basisVars, simpVars, scalingVars, recurrenceVars,
                   functionVars, evalVars>>

\* s = value;
SafeSumAssignment ==
    /\ Len(ops) <= MaxSafeSumOps
    /\ \E value \in AssignedValues :
          /\ safe' = SafeSumDoubleAssign(safe, value)
          /\ naive' = value
          /\ ops' = Append(ops, [op |-> "=", value |-> value])
    /\ before' = safe
    /\ UNCHANGED inexact
    /\ UNCHANGED <<idxVars, binVars, basisVars, simpVars, scalingVars, recurrenceVars,
                   functionVars, evalVars>>

NextSafeSum == SafeSumPlusAssign \/ SafeSumMinusAssign \/ SafeSumAssignment

SpecSafeSum == InitSafeSum /\ [][NextSafeSum]_vars

(***************************************************************************)
(* Member functions called on the objects in `shared`.  scaled(), fill(),  *)
(* sumWith() and operator() are all const member functions: a call leaves  *)
(* its receiver `self` as it was and hands back `returned`.                *)
(***************************************************************************)
IsFunction(obj) == "coefficients" \in DOMAIN obj

BasisOf(obj) == IF IsFunction(obj) THEN obj.basis ELSE obj

\* scaled() that replaces its receiver by the scaled object.
CallScaled_inPlace(obj, arg) ==
    LET wrapped == IF IsFunction(obj) THEN FunctionScaled(obj, arg) ELSE scaled(obj, arg)
    IN  [self |-> wrapped, returned |-> wrapped]

\* obj.scaled(arg)
CallScaled(obj, arg) ==
    [self |-> obj,
     returned |-> IF IsFunction(obj) THEN FunctionScaled(obj, arg) ELSE scaled(obj, arg)]

\* obj.sumWith(point, coefficients, mode), or obj(point, mode) on a Function
CallSumWith(obj, point, coefficients, mode, garbage) ==
    [self |-> obj,
     returned |-> IF IsFunction(obj)
                  THEN FunctionCall(obj, point, mode, garbage)
                  ELSE sumWith(obj, point, coefficients, mode, garbage)]

\* obj.fill(point, out)
CallFill(obj, point, out, garbage) ==
    [self |-> obj, returned |-> fill(obj, point, out, garbage)]

ReceiverBases == {b \in RootBases : getOrder(b) <= MaxReceiverOrder}

\* The coefficients handed to sumWith and to the Function constructor.
GivenVector(len) == [m \in 0..(len - 1) |-> IF m % 2 = 0 THEN R(m + 2) ELSE R(0 - (m + 1))]

ReceiverObjects ==
    ReceiverBases \cup {Function(b, GivenVector(size(b))) : b \in ReceiverBases}

InitReceiver ==
    /\ \E obj \in ReceiverObjects : shared = <<obj>>
    /\ lastCall = None
    /\ callers = <<>>
    /\ workspaces = <<>>
    /\ IdleIndex /\ IdleBinomial /\ IdleBasis /\ IdleSimplified
    /\ IdleScaling /\ IdleRecurrence /\ IdleFunction
    /\ IdleSafeSum

\* auto made = shared[i].scaled(arg);
ReceiverScaled ==
    /\ Len(shared) < MaxObjects
    /\ \E i \in 1..Len(shared) : \E arg \in ScalingsOf(BasisOf(shared[i])) :
          LET done == CallScaled(shared[i], arg)
          IN  /\ shared' = Append([shared EXCEPT ![i] = done.self], done.returned)
              /\ lastCall' = [op |-> "scaled", receiver |-> i, argument |-> arg,
                              returned |-> done.returned]
    /\ UNCHANGED <<callers, workspaces>>
    /\ UNCHANGED <<idxVars, binVars, basisVars, simpVars, scalingVars, recurrenceVars,
                   functionVars, safeSumVars>>

\* shared[i].sumWith(point, coefficients, mode); shared[i](point, mode)
ReceiverSumWith ==
    /\ \E i \in 1..Len(shared) :
       \E point \in PointsOf(BasisOf(shared[i])),
          mode \in SumMode, g \in Garbage :
          LET done == CallSumWith(shared[i], point, GivenVector(size(BasisOf(shared[i]))), mode, g)
          IN  /\ shared' = [shared EXCEPT ![i] = done.self]
              /\ lastCall' = [op |-> "sumWith", receiver |-> i, argument |-> point,
                              returned |-> done.returned]
    /\ UNCHANGED <<callers, workspaces>>
    /\ UNCHANGED <<idxVars, binVars, basisVars, simpVars, scalingVars, recurrenceVars,
                   functionVars, safeSumVars>>

\* shared[i].fill(point, out), on a basis
ReceiverFill ==
    /\ \E i \in 1..Len(shared) :
          /\ ~IsFunction(shared[i])
          /\ \E point \in PointsOf(shared[i]), g \in Garbage :
                LET done == CallFill(shared[i], point, Zero(size(shared[i])), g)
                IN  /\ shared' = [shared EXCEPT ![i] = done.self]
                    /\ lastCall' = [op |-> "fill", receiver |-> i, argument |-> point,
                                    returned |-> done.returned]
    /\ UNCHANGED <<callers, workspaces>>
    /\ UNCHANGED <<idxVars, binVars, basisVars, simpVars, scalingVars, recurrenceVars,
                   functionVars, safeSumVars>>

NextReceiver == ReceiverScaled \/ ReceiverSumWith \/ ReceiverFill

SpecReceiver == InitReceiver /\ [][NextReceiver]_vars

(***************************************************************************)
(* Evaluation with caller-owned workspaces: PackedBasis2d::sumWith and     *)
(* ::fill with a Workspace & argument, statement by statement, reached     *)
(* directly, through ScaledBasis2d or through Function2d::operator().      *)
(* Either two callers evaluate the same object, each with its own          *)
(* workspace and their statements interleaved, or one caller makes several *)
(* calls in a row with the same workspace.                                 *)
(***************************************************************************)
\* The PackedBasis2d that ends up doing the work for obj.
PackedOf(obj) == IF IsScaled(BasisOf(obj)) THEN BasisOf(obj).nested ELSE BasisOf(obj)

\* The point that PackedBasis2d is handed: getScaling().applyForward(point)
\* when obj is, or is a Function over, a ScaledBasis2d.
PointHanded(obj, at) ==
    IF IsScaled(BasisOf(obj)) THEN applyForward2d(BasisOf(obj).scaling, at) ELSE at

\* The workspace the statements of caller c work on: the Workspace & it passed.
WorkspaceOf_sharedByAll(c) == 1

WorkspaceOf(c) == c

\* _basis1d.fill(point.getX(), workspace._x);
FillX(b, at, ws) == [ws EXCEPT !.x = RecurrenceBasis1d_fill(b.basis1d, at.x, ws.x)]

\* A second statement that leaves workspace._y as it is.
FillY_skipped(b, at, ws) == ws

\* _basis1d.fill(point.getY(), workspace._y);
FillY(b, at, ws) == [ws EXCEPT !.y = RecurrenceBasis1d_fill(b.basis1d, at.y, ws.y)]

\* sum += coefficients[index.flat]*workspace._x[index.nx]*workspace._y[index.ny];
SumTerm(idx, coeffs, ws, how, acc) ==
    Accumulate(how, acc, RMul(RMul(coeffs[idx.flat], ws.x[idx.nx]), ws.y[idx.ny]))

\* basis[index.flat] = workspace._x[index.nx]*workspace._y[index.ny];
FillTerm(idx, ws, dest) == [dest EXCEPT ![idx.flat] = RMul(ws.x[idx.nx], ws.y[idx.ny])]

WorkspaceBases ==
    {PackedBasis2d(RecurrenceBasis1d("Polynomial", o), "YX") : o \in 0..MaxWorkspaceOrder}
    \cup {PackedBasis2d(RecurrenceBasis1d("Chebyshev1", o), "XY") : o \in 0..MaxWorkspaceOrder}
    \cup {ScaledBasis2dBox("Polynomial", "XY", o, UnitRangeBox) : o \in 0..MaxWorkspaceOrder}
    \cup {ScaledBasis2dBox("Chebyshev1", "YX", o, UnitRangeBox) : o \in 0..MaxWorkspaceOrder}

WorkspaceObjects ==
    WorkspaceBases \cup {Function(b, GivenVector(size(b))) : b \in WorkspaceBases}

IdleCaller(calls) ==
    [pc |-> "idle", target |-> 0, op |-> "none", point |-> None, mode |-> "FAST",
     coefficients |-> None, m |-> 0, sum |-> None, out |-> None, result |-> None,
     atStart |-> None, overlapped |-> FALSE, budget |-> calls]

Running(c) == callers[c].pc \in {"fillX", "fillY", "loop"}

\* Two callers, one object, one call each.
InitConcurrent ==
    \E obj \in WorkspaceObjects, g \in Garbage :
        /\ shared = <<obj>>
        /\ callers = <<IdleCaller(1), IdleCaller(1)>>
        /\ workspaces = <<PackedBasis2d_makeWorkspace(PackedOf(obj), g),
                          PackedBasis2d_makeWorkspace(PackedOf(obj), g)>>

\* One caller, an object and a basis of at most its order, several calls.
InitReuse ==
    \E obj \in WorkspaceObjects, lower \in WorkspaceBases, g \in Garbage :
        /\ getOrder(lower) <= getOrder(BasisOf(obj))
        /\ PackedOf(lower).basis1d.recurrence = PackedOf(obj).basis1d.recurrence
        /\ shared = <<obj, lower>>
        /\ callers = <<IdleCaller(MaxReuseCalls)>>
        /\ workspaces = <<PackedBasis2d_makeWorkspace(PackedOf(obj), g)>>

InitWorkspace ==
    /\ InitConcurrent \/ InitReuse
    /\ lastCall = None
    /\ IdleIndex /\ IdleBinomial /\ IdleBasis /\ IdleSimplified
    /\ IdleScaling /\ IdleRecurrence /\ IdleFunction
    /\ IdleSafeSum

OthersUnchanged ==
    UNCHANGED <<idxVars, binVars, basisVars, simpVars, scalingVars, recurrenceVars,
                functionVars, safeSumVars>>

\* Caller c calls sumWith(point, coefficients, workspace, mode) on a basis,
\* operator()(point, workspace, mode) on a Function, or fill(point, basis,
\* workspace) on a basis; assert(workspace.getOrder() >= getOrder()) holds.
CallerBegin(c) ==
    /\ callers[c].pc \in {"idle", "done"}
    /\ callers[c].budget > 0
    /\ \E t \in 1..Len(shared), op \in {"sumWith", "fill"}, at \in Points2d, how \in SumMode :
          /\ op = "fill" => (~IsFunction(shared[t]) /\ how = "FAST")
          /\ WorkspaceGetOrder(workspaces[WorkspaceOf(c)]) >= getOrder(BasisOf(shared[t]))
          /\ callers' = [callers EXCEPT ![c] =
                [pc |-> "fillX", target |-> t, op |-> op, point |-> at, mode |-> how,
                 coefficients |-> IF IsFunction(shared[t]) THEN shared[t].coefficients
                                  ELSE GivenVector(size(shared[t])),
                 m |-> 1,
                 sum |-> IF how = "FAST" THEN R(0) ELSE SafeSum(R(0)),
                 out |-> IF op = "fill" THEN Zero(size(BasisOf(shared[t]))) ELSE None,
                 result |-> None,
                 atStart |-> workspaces[WorkspaceOf(c)],
                 overlapped |-> \E other \in 1..Len(callers) : other # c /\ Running(other),
                 budget |-> callers[c].budget - 1]]
    /\ UNCHANGED <<shared, lastCall, workspaces>>
    /\ OthersUnchanged

\* _basis1d.fill(point.getX(), workspace._x);
CallerFillX(c) ==
    /\ callers[c].pc = "fillX"
    /\ workspaces' = [workspaces EXCEPT ![WorkspaceOf(c)] =
          FillX(PackedOf(shared[callers[c].target]),
                PointHanded(shared[callers[c].target], callers[c].point), @)]
    /\ callers' = [callers EXCEPT ![c].pc = "fillY"]
    /\ UNCHANGED <<shared, lastCall>>
    /\ OthersUnchanged

\* _basis1d.fill(point.getY(), workspace._y);
CallerFillY(c) ==
    /\ callers[c].pc = "fillY"
    /\ workspaces' = [workspaces EXCEPT ![WorkspaceOf(c)] =
          FillY(PackedOf(shared[callers[c].target]),
                PointHanded(shared[callers[c].target], callers[c].point), @)]
    /\ callers' = [callers EXCEPT ![c].pc = "loop"]
    /\ UNCHANGED <<shared, lastCall>>
    /\ OthersUnchanged

\* One turn of for (auto const & index : getIndices()).
CallerLoop(c) ==
    LET fr == callers[c]
        indices == PackedBasis2d_getIndices(PackedOf(shared[fr.target]))
    IN  /\ fr.pc = "loop"
        /\ fr.m <= Len(indices)
        /\ callers' = [callers EXCEPT ![c] =
              IF fr.op = "sumWith"
              THEN [fr EXCEPT !.m = fr.m + 1,
                              !.sum = SumTerm(indices[fr.m], fr.coefficients,
                                              workspaces[WorkspaceOf(c)], fr.mode, fr.sum)]
              ELSE [fr EXCEPT !.m = fr.m + 1,
                              !.out = FillTerm(indices[fr.m], workspaces[WorkspaceOf(c)],
                                               fr.out)]]
        /\ UNCHANGED <<shared, lastCall, workspaces>>
        /\ OthersUnchanged

\* The loop is over: result = z, or static_cast<double>(z); return.
CallerReturn(c) ==
    LET fr == callers[c]
        indices == PackedBasis2d_getIndices(PackedOf(shared[fr.target]))
    IN  /\ fr.pc = "loop"
        /\ fr.m > Len(indices)
        /\ callers' = [callers EXCEPT ![c] =
              [fr EXCEPT !.pc = "done",
                         !.result = IF fr.op = "fill" THEN fr.out
                                    ELSE IF fr.mode = "FAST" THEN fr.sum
                                    ELSE SafeSumValue(fr.sum)]]
        /\ UNCHANGED <<shared, lastCall, workspaces>>
        /\ OthersUnchanged

NextWorkspace ==
    \E c \in 1..Len(callers) :
        \/ CallerBegin(c)
        \/ CallerFillX(c)
        \/ CallerFillY(c)
        \/ CallerLoop(c)
        \/ CallerReturn(c)

SpecWorkspace == InitWorkspace /\ [][NextWorkspace]_vars

(***************************************************************************)
(* fill and sumWith handed buffers one element longer than the basis, as   *)
(* testBasis does with basis2, basis4 and coefficients4: the extra element *)
(* holds a value that "should be ignored".                                 *)
(***************************************************************************)
\* What the extra element holds.
Sentinels == {R(5), R(0 - 11)}

\* An element of the destination that nothing has been assigned to.
Unwritten == None

\* std::vector<double> basis2(basis.size() + 1); basis2[basis.size()] = sentinel;
LongerDestination(len, sentinel) ==
    [m \in 0..len |-> IF m = len THEN sentinel ELSE Unwritten]

\* Eigen::VectorXd coefficients4(basis.size() + 1), a copy of c and the sentinel
LongerCoefficients(c, len, sentinel) ==
    [m \in 0..len |-> IF m = len THEN sentinel ELSE c[m]]

\* The bases testBasis and testScaledBasis are run on, order 0 included.
BufferBases == {b \in RootBases : getOrder(b) <= MaxBufferOrder}

InitBuffer ==
    /\ root \in BufferBases
    /\ prev = root
    /\ basis = root
    /\ applied = <<>>
    /\ call = None
    /\ IdleIndex /\ IdleBinomial /\ IdleSimplified
    /\ IdleScaling /\ IdleRecurrence /\ IdleFunction /\ IdleSafeSum /\ IdleEval

\* basis.fill(point, basis2.begin())
BufferFill ==
    /\ \E point \in PointsOf(basis), sentinel \in Sentinels, g \in Garbage :
          call' = [op |-> "fill", point |-> point,
                   given |-> LongerDestination(size(basis), sentinel),
                   out |-> fill(basis, point, LongerDestination(size(basis), sentinel), g)]
    /\ UNCHANGED <<root, prev, basis, applied, idxVars, binVars, simpVars,
                   scalingVars, recurrenceVars, functionVars, safeSumVars, evalVars>>

\* basis.sumWith(point, coefficients4)
BufferSumWith ==
    /\ \E point \in PointsOf(basis), c \in CoefficientVectors(size(basis)),
          sentinel \in Sentinels, mode \in SumMode, g \in Garbage :
          call' = [op |-> "sumWith", point |-> point, mode |-> mode,
                   given |-> LongerCoefficients(c, size(basis), sentinel),
                   out |-> sumWith(basis, point, LongerCoefficients(c, size(basis), sentinel),
                                   mode, g)]
    /\ UNCHANGED <<root, prev, basis, applied, idxVars, binVars, simpVars,
                   scalingVars, recurrenceVars, functionVars, safeSumVars, evalVars>>

\* basis.scaled(scaling), as testScaledBasis builds the basis it hands on
BufferScaled ==
    /\ Len(applied) < MaxBufferScalings
    /\ \E first \in ScalingsOf(basis) :
          /\ basis' = scaled(basis, first)
          /\ applied' = Append(applied, first)
    /\ prev' = basis
    /\ call' = None
    /\ UNCHANGED <<root, idxVars, binVars, simpVars,
                 scalingVars, recurrenceVars, functionVars, safeSumVars, evalVars>>

NextBuffer == BufferScaled \/ BufferFill \/ BufferSumWith

SpecBuffer == InitBuffer /\ [][NextBuffer]_vars

(***************************************************************************)
(* Claims about the packed index scheme (checked under SpecIndex).         *)
(***************************************************************************)
Triangle(N) == {pr \in (0..N) \X (0..N) : pr[1] + pr[2] <= N}

VisitedPairs == {<<visited[m].nx, visited[m].ny>> : m \in 1..Len(visited)}

Degree(i) == i.nx + i.ny

\* C3: computeSize(N) = (N+1)(N+2)/2, every pair produced has nx+ny <= N,
\* no pair is produced twice, and when the loop ends the pairs produced are
\* exactly {(nx, ny) : nx+ny <= N}.
C3_SizeAndExactSet ==
    /\ computeSize(order) = ((order + 1) * (order + 2)) \div 2
    /\ \A m \in 1..Len(visited) : Degree(visited[m]) <= order
    /\ \A a, b \in 1..Len(visited) :
          (visited[a].nx = visited[b].nx /\ visited[a].ny = visited[b].ny) => a = b
    /\ IndexDone =>
          /\ VisitedPairs = Triangle(order)
          /\ Len(visited) = computeSize(order)

C3_Witness == IndexDone /\ order = 3 /\ packing = "XY" /\ Len(visited) = 10

\* The flat position the packing rules assign to (nx, ny).
FlatOf(p, nx, ny) ==
    LET d == nx + ny
    IN  (d * (d + 1)) \div 2 + (IF p = "YX" THEN nx ELSE ny)

Yielded == {visited[m] : m \in 1..Len(visited)}

\* C4: every Index2d yielded has flat = computeIndex(nx, ny) =
\* offset(nx+ny) + nx (YX) or + ny (XY); the first index of each degree block
\* has flat = offset(degree); and when the loop ends (nx, ny) -> flat is a
\* bijection from {nx+ny <= order} onto 0..size-1.
C4_FlatIsComputeIndex ==
    /\ \A i \in Yielded \cup (IF IndexDone THEN {} ELSE {index}) :
          /\ i.flat = computeIndex(packing, i.nx, i.ny)
          /\ i.flat = FlatOf(packing, i.nx, i.ny)
          /\ (packing = "YX" /\ i.nx = 0) => i.flat = computeOffset(Degree(i))
          /\ (packing = "XY" /\ i.ny = 0) => i.flat = computeOffset(Degree(i))
    /\ IndexDone =>
          /\ {i.flat : i \in Yielded} = 0..(computeSize(order) - 1)
          /\ \A pr \in Triangle(order) :
                \E i \in Yielded : i.nx = pr[1] /\ i.ny = pr[2]
                                    /\ i.flat = FlatOf(packing, pr[1], pr[2])
          /\ \A i1, i2 \in Yielded : i1.flat = i2.flat => i1 = i2

C4_Witness ==
    /\ IndexDone /\ order = 4 /\ packing = "YX"
    /\ \E i \in Yielded : i.nx = 1 /\ i.ny = 3 /\ i.flat = 11

\* C5: the loop visits indices in non-decreasing total degree and strictly
\* increasing flat index.
C5_OrderedIteration ==
    /\ \A a, b \in 1..Len(visited) :
          a < b => /\ Degree(visited[a]) <= Degree(visited[b])
                   /\ visited[a].flat < visited[b].flat
    /\ \A a \in 1..Len(visited) :
          /\ Degree(visited[a]) <= Degree(index)
          /\ visited[a].flat < index.flat

C5_Witness ==
    /\ IndexDone /\ order = 3 /\ packing = "YX"
    /\ visited[4].nx = 0 /\ visited[4].ny = 2 /\ visited[6].nx = 2

Min(a, b) == IF a < b THEN a ELSE b

\* C6: for every K <= N the order-K range yields exactly size(K) triples and
\* they are the first size(K) triples of the order-N iteration.
C6_PrefixProperty ==
    \A K \in 0..order :
        LET small == getIndices(packing, K)
            m == Min(Len(visited), computeSize(K))
        IN  /\ Len(small) = computeSize(K)
            /\ SubSeq(small, 1, m) = SubSeq(visited, 1, m)
            /\ IndexDone => small = SubSeq(visited, 1, computeSize(K))

C6_Witness ==
    /\ IndexDone /\ order = 4 /\ packing = "XY"
    /\ getIndices("XY", 2) = SubSeq(visited, 1, 6)
    /\ Len(visited) = 15

(***************************************************************************)
(* Claims about the binomial cache (checked under SpecBinomial).           *)
(***************************************************************************)
RECURSIVE Factorial(_)
Factorial(m) == IF m <= 0 THEN 1 ELSE m * Factorial(m - 1)

Choose(a, b) == Factorial(a) \div (Factorial(b) * Factorial(a - b))

\* C7: once BinomialMatrix(nMax) is constructed, every entry (a, b) with
\* 0 <= b <= a <= nMax is a!/(b!(a-b)!), in every row of the table, and a
\* lookup returns that entry.
C7_BinomialIsFactorialRatio ==
    /\ matrix # None =>
          \A a \in 0..nMax : \A b \in 0..a :
              /\ Factorial(b) * Factorial(a - b) * Choose(a, b) = Factorial(a)
              /\ binomial(matrix, a, b) = R(Choose(a, b))
    /\ lookup # None => lookup.value = R(Choose(lookup.n, lookup.k))

C7_Witness ==
    /\ matrix # None /\ nMax = 6
    /\ lookup # None /\ lookup.n = 4 /\ lookup.k = 2 /\ lookup.value = R(6)

(***************************************************************************)
(* Claims about bases and their scaled decorators (checked under           *)
(* SpecBasis).                                                             *)
(***************************************************************************)
RECURSIVE DotUpTo(_, _, _)
DotUpTo(u, w, len) ==
    IF len = 0
    THEN R(0)
    ELSE LET d == DotUpTo(u, w, len - 1)
         IN  IF d = d THEN RAdd(d, RMul(u[len - 1], w[len - 1])) ELSE d

IsSumWith == call # None /\ call.op = "sumWith"

IsFill == call # None /\ call.op = "fill"

\* C8: for every basis, point and coefficient vector, in both modes,
\* sumWith(point, coefficients) is the dot product of the coefficients with
\* the vector fill(point, .) writes.
C8_SumWithIsDotOfFill ==
    IsSumWith =>
        \A g \in Garbage :
            call.result =
                DotUpTo(call.coefficients,
                        fill(basis, call.point, Zero(size(basis)), g),
                        size(basis))

C8_Witness ==
    /\ IsSumWith /\ call.mode = "SAFE" /\ basis.type = "ScaledBasis2d"
    /\ getOrder(basis) = 2 /\ basis.nested.basis1d.recurrence = "Chebyshev1"
    /\ call.result # R(0)

Last(sq) == sq[Len(sq)]

\* C9: b.scaled(s) evaluates at x what b evaluates at s.applyForward(x), for
\* sumWith and fill, and has the order and size of b.
C9_ScaledEvaluatesAtForward ==
    Len(applied) >= 1 =>
        /\ getOrder(basis) = getOrder(prev)
        /\ size(basis) = size(prev)
        /\ IsSumWith =>
              \A g \in Garbage :
                  call.result = sumWith(prev, applyForward(Last(applied), call.point),
                                        call.coefficients, call.mode, g)
        /\ IsFill =>
              \A g \in Garbage :
                  call.out = fill(prev, applyForward(Last(applied), call.point),
                                  Zero(size(prev)), g)

C9_Witness ==
    /\ Len(applied) = 1 /\ prev.type = "RecurrenceBasis1d" /\ prev.order = 3
    /\ IsSumWith /\ call.point = R(2) /\ applied[1] = Scaling1d(Rat(0 - 1, 2), Rat(3, 2))
    /\ call.result # R(0)

\* The nested, unscaled basis of the root and the point it is evaluated at
\* when the root is evaluated at x.
Innermost(b) == IF IsScaled(b) THEN b.nested ELSE b

RootForward(b, x) == IF IsScaled(b) THEN applyForward(b.scaling, x) ELSE x

\* applied[m].applyForward(... applied[Len].applyForward(x))
RECURSIVE AppliedForward(_, _, _)
AppliedForward(sq, m, x) ==
    IF m > Len(sq) THEN x ELSE applyForward(sq[m], AppliedForward(sq, m + 1, x))

RECURSIVE RPow(_, _)
RPow(x, e) == IF e = 0 THEN R(1) ELSE RMul(RPow(x, e - 1), x)

\* sum of term(m) for m in lo..hi, for a vector of terms
RECURSIVE RSum(_, _, _)
RSum(terms, lo, hi) == IF lo > hi THEN R(0) ELSE RAdd(terms[lo], RSum(terms, lo + 1, hi))

\* sum_m b_m x^m
Poly1d(b, N, x) == RSum([m \in 0..N |-> RMul(b[m], RPow(x, m))], 0, N)

\* sum_m a_m ((x + v) s)^m
ScaledPoly1d(a, N, s, v, x) == Poly1d(a, N, RMul(RAdd(x, v), s))

\* sum over m >= t of a_m s^m C(m, m - t) v^(m - t)
Expanded1d(a, N, s, v, t) ==
    RSum([m \in t..N |->
             RMul(RMul(RMul(a[m], RPow(s, m)), R(Choose(m, m - t))), RPow(v, m - t))],
         t, N)

EvalPoints1d == {R(0 - 2), R(0 - 1), R(0), R(1), R(2), Rat(1, 2)}

\* C1: simplified() of a 1-d scaled power-series Function returns an
\* unscaled power-series Function of the same order whose coefficients b
\* satisfy sum_m b_m x^m = sum_m a_m ((x + v) s)^m, so that it evaluates to
\* what the input evaluates to at every point.
C1_Simplified1dPreserves ==
    pc = "done" =>
        LET N == getOrder(f.basis)
            s == f.basis.scaling.scale
            v == f.basis.scaling.shift
        IN  /\ ret.basis = RecurrenceBasis1d("Polynomial", N)
            /\ DOMAIN ret.coefficients = 0..N
            /\ \A t \in 0..N :
                  ret.coefficients[t] = Expanded1d(f.coefficients, N, s, v, t)
            /\ \A x \in EvalPoints1d :
                  /\ Poly1d(ret.coefficients, N, x) = ScaledPoly1d(f.coefficients, N, s, v, x)
                  /\ \A mode \in SumMode :
                        /\ FunctionCall(ret, x, mode, R(0)) = FunctionCall(f, x, mode, R(0))
                        /\ FunctionCall(ret, x, mode, R(0)) = Poly1d(ret.coefficients, N, x)

C1_Witness ==
    /\ pc = "done" /\ getOrder(f.basis) = 3
    /\ f.basis.scaling = Scaling1d(R(2), R(0 - 1))
    /\ f.coefficients[3] = R(4)
    /\ ret.coefficients # f.coefficients

\* sum over nx+ny <= N of b_{nx,ny} x^nx y^ny, b packed by p
Poly2d(b, p, N, x, y) ==
    LET inner(nx) == RSum([ny \in 0..(N - nx) |->
                              RMul(RMul(b[FlatOf(p, nx, ny)], RPow(x, nx)), RPow(y, ny))],
                          0, N - nx)
    IN  RSum([nx \in 0..N |-> inner(nx)], 0, N)

\* sum over nx >= tx, ny >= ty of
\* a_{nx,ny} C(nx, nx-tx) C(ny, ny-ty) rx^nx ry^ny ux^(nx-tx) uy^(ny-ty)
Expanded2d(a, p, N, sc, tx, ty) ==
    LET w(nx, ny) ==
            RMul(RMul(RMul(RMul(RMul(RMul(a[FlatOf(p, nx, ny)],
                R(Choose(nx, nx - tx))), R(Choose(ny, ny - ty))),
                RPow(sc.x.scale, nx)), RPow(sc.y.scale, ny)),
                RPow(sc.x.shift, nx - tx)), RPow(sc.y.shift, ny - ty))
        inner(nx) == RSum([ny \in ty..(N - nx) |-> w(nx, ny)], ty, N - nx)
    IN  RSum([nx \in tx..(N - ty) |-> inner(nx)], tx, N - ty)

EvalPoints2d == {Point2D(x, y) : x, y \in {R(0 - 1), R(0), R(1), R(2)}}

\* C2: simplified() of a 2-d scaled power-series Function, in both packing
\* orders, returns an unscaled Function of the same order and packing that
\* evaluates to what the input evaluates to at every point; target
\* (nx-j, ny-k) receives a_{nx,ny} with weight
\* C(nx,j) C(ny,k) rx^nx ry^ny ux^j uy^k.
C2_Simplified2dPreserves ==
    pc = "done" =>
        LET N == getOrder(f.basis)
            p == f.basis.nested.packing
            sc == f.basis.scaling
        IN  /\ ret.basis = PackedBasis2d(RecurrenceBasis1d("Polynomial", N), p)
            /\ DOMAIN ret.coefficients = 0..(((N + 1) * (N + 2)) \div 2 - 1)
            /\ \A pr \in Triangle(N) :
                  ret.coefficients[FlatOf(p, pr[1], pr[2])] =
                      Expanded2d(f.coefficients, p, N, sc, pr[1], pr[2])
            /\ \A pt \in EvalPoints2d :
                  /\ Poly2d(ret.coefficients, p, N, pt.x, pt.y) =
                         Poly2d(f.coefficients, p, N,
                                RMul(RAdd(pt.x, sc.x.shift), sc.x.scale),
                                RMul(RAdd(pt.y, sc.y.shift), sc.y.scale))
                  /\ \A mode \in SumMode :
                        /\ FunctionCall(ret, pt, mode, R(0)) = FunctionCall(f, pt, mode, R(0))
                        /\ FunctionCall(ret, pt, mode, R(0)) =
                               Poly2d(ret.coefficients, p, N, pt.x, pt.y)

C2_Witness ==
    /\ pc = "done" /\ getOrder(f.basis) = 2 /\ f.basis.nested.packing = "XY"
    /\ f.basis.scaling = Scaling2d(Scaling1d(R(2), R(0 - 1)), Scaling1d(Rat(1, 2), R(1)))
    /\ f.coefficients[5] = R(6)
    /\ ret.coefficients # f.coefficients

(***************************************************************************)
(* Claims about scalings (checked under SpecScaling).                      *)
(***************************************************************************)
\* The last call was made on the scaling that operation op returned.
OnMade(op) == applyCall # None /\ applyCall.on = "made" /\ made.op = op

\* C12: for r = a.then(b), r.applyForward(x) is b.applyForward(a.applyForward(x))
\* and r.applyInverse(y) is a.applyInverse(b.applyInverse(y)), in 1-d and 2-d.
C12_ThenComposes ==
    OnMade("then") =>
        applyCall.y = (IF applyCall.dir = "forward"
                       THEN applyForward(made.b, applyForward(made.a, applyCall.x))
                       ELSE applyInverse(made.a, applyInverse(made.b, applyCall.x)))

C12_Witness ==
    /\ OnMade("then") /\ applyCall.dir = "inverse" /\ ~Is1dScaling(affine)
    /\ made.b = second /\ second # affine
    /\ applyCall.x = Point2D(R(2), R(0 - 2))

\* C13: for r = t.inverted(), r.applyForward(x) is t.applyInverse(x) and
\* r.applyInverse(y) is t.applyForward(y), in 1-d and 2-d.
C13_InvertedSwapsDirections ==
    OnMade("inverted") =>
        applyCall.y = (IF applyCall.dir = "forward"
                       THEN applyInverse(made.a, applyCall.x)
                       ELSE applyForward(made.a, applyCall.x))

C13_Witness ==
    /\ OnMade("inverted") /\ applyCall.dir = "forward"
    /\ affine = Scaling1d(R(2), Rat(0 - 1, 2)) /\ applyCall.x = R(3)
    /\ applyCall.y = R(2)

\* C14: s.then(s.inverted()) maps every point to itself in both directions,
\* and s.applyInverse(s.applyForward(x)) is x, in 1-d and 2-d.
C14_RoundTrip ==
    /\ (OnMade("then") /\ made.b = inverted(made.a)) => applyCall.y = applyCall.x
    /\ (/\ applyCall # None
        /\ applyCall.from # None
        /\ applyCall.dir = "inverse"
        /\ applyCall.from.dir = "forward"
        /\ applyCall.from.on = applyCall.on) => applyCall.y = applyCall.from.x

C14_Witness ==
    /\ applyCall # None /\ applyCall.from # None
    /\ applyCall.on = "affine" /\ applyCall.from.on = "affine"
    /\ applyCall.dir = "inverse" /\ applyCall.from.dir = "forward"
    /\ affine = Scaling1d(Rat(0 - 1, 2), R(0 - 1)) /\ applyCall.from.x = R(3)
    /\ made # None /\ made.op = "then" /\ made.b = inverted(affine)

\* One axis of a unit-range scaling: forward takes min to -1 and max to 1,
\* inverse takes -1 to min and 1 to max.
UnitRangeAxis(dir, x, y, min, max) ==
    IF dir = "forward"
    THEN (x = min => y = R(0 - 1)) /\ (x = max => y = R(1))
    ELSE (x = R(0 - 1) => y = min) /\ (x = R(1) => y = max)

\* C15: makeUnitRangeScaling1d(min, max) maps min to -1 and max to 1 and its
\* inverse maps them back; makeUnitRangeScaling2d(box) does so on each axis,
\* mapping the corners of the box to the corners of [-1,1]x[-1,1].
C15_UnitRangeMapsEnds ==
    OnMade("makeUnitRange") =>
        IF Is1dScaling(made.result)
        THEN UnitRangeAxis(applyCall.dir, applyCall.x, applyCall.y, made.a.min, made.a.max)
        ELSE /\ UnitRangeAxis(applyCall.dir, applyCall.x.x, applyCall.y.x,
                              made.a.min.x, made.a.max.x)
             /\ UnitRangeAxis(applyCall.dir, applyCall.x.y, applyCall.y.y,
                              made.a.min.y, made.a.max.y)

C15_Witness ==
    /\ OnMade("makeUnitRange") /\ applyCall.dir = "forward" /\ ~Is1dScaling(made.result)
    /\ made.a.min = Point2D(Rat(0 - 1, 2), R(0 - 2))
    /\ applyCall.x = Point2D(Rat(0 - 1, 2), R(1))
    /\ applyCall.y = Point2D(R(0 - 1), R(1))

(***************************************************************************)
(* Claims about the recurrences (checked under SpecRecurrence).            *)
(***************************************************************************)
\* fill has returned for a basis of the given recurrence.
FillDone(rec) ==
    frame # None /\ frame.op = "fill" /\ frame.pc = "done" /\ frame.basis.recurrence = rec

\* cos(m*acos(x)) at the points of [-1,1] where it is rational:
\* acos(1) = 0, acos(-1) = pi, acos(0) = pi/2, acos(1/2) = pi/3, acos(-1/2) = 2pi/3.
CosNAcos(m, x) ==
    CASE x = R(1) -> R(1)
      [] x = R(0 - 1) -> IF m % 2 = 0 THEN R(1) ELSE R(0 - 1)
      [] x = R(0) -> <<R(1), R(0), R(0 - 1), R(0)>>[(m % 4) + 1]
      [] x = Rat(1, 2) ->
             <<R(1), Rat(1, 2), Rat(0 - 1, 2), R(0 - 1), Rat(0 - 1, 2), Rat(1, 2)>>[(m % 6) + 1]
      [] x = Rat(0 - 1, 2) -> <<R(1), Rat(0 - 1, 2), Rat(0 - 1, 2)>>[(m % 3) + 1]

InUnitRange(x) == RGeq(x, R(0 - 1)) /\ RGeq(R(1), x)

\* C16: the Chebyshev1 basis fills out[0] = 1, out[1] = x and
\* out[m+1] = 2*x*out[m] - out[m-1] up to the order, and for x in [-1,1]
\* out[m] is cos(m*acos(x)): 1 at x = 1, (-1)^m at x = -1, the cycle
\* 1, 0, -1, 0 at x = 0.
C16_ChebyshevFill ==
    FillDone("Chebyshev1") =>
        LET o == frame.basis.order
            x == frame.x
            out == frame.out
        IN  /\ out[0] = R(1)
            /\ o >= 1 => out[1] = x
            /\ \A m \in 1..(o - 1) :
                  out[m + 1] = RSub(RMul(RMul(R(2), x), out[m]), out[m - 1])
            /\ InUnitRange(x) => \A m \in 0..o : out[m] = CosNAcos(m, x)

C16_Witness ==
    /\ FillDone("Chebyshev1") /\ frame.basis.order = MaxRecurrenceOrder
    /\ frame.x = Rat(1, 2) /\ frame.out[4] = Rat(0 - 1, 2) /\ Len(nextCalls) >= 3

\* C17: the power basis fills out[m] = x^m for every m up to the order, and
\* out[0] = 1 also at x = 0.
C17_PowerFill ==
    FillDone("Polynomial") =>
        /\ \A m \in 0..frame.basis.order : frame.out[m] = RPow(frame.x, m)
        /\ frame.out[0] = R(1)

C17_Witness ==
    /\ FillDone("Polynomial") /\ frame.basis.order = MaxRecurrenceOrder
    /\ frame.x = Rat(0 - 3, 2) /\ frame.out[3] = Rat(0 - 27, 8) /\ Len(nextCalls) >= 3

\* B_m(x) as the Recurrence concept defines it: B_0 = getB0(x),
\* B_1 = getB1(x), B_{m+1} = next(x, m, B_m, B_{m-1}).
RECURSIVE B(_, _, _)
B(rec, m, x) ==
    IF m = 0 THEN getB0(rec, x)
    ELSE IF m = 1 THEN getB1(rec, x)
    ELSE LET cur == B(rec, m - 1, x)
             prv == B(rec, m - 2, x)
         IN  next(rec, x, m - 1, cur, prv)

\* C19: every call next(x, n, current, previous) made by fill and sumWith
\* passes the order n of the current basis function, current = B_n(x) and
\* previous = B_{n-1}(x), and its result is used as B_{n+1}(x).
C19_NextGetsCurrentOrder ==
    \A i \in 1..Len(nextCalls) :
        LET c == nextCalls[i]
        IN  /\ c.current = B(frame.basis.recurrence, c.n, frame.x)
            /\ c.previous = B(frame.basis.recurrence, c.n - 1, frame.x)
            /\ c.usedAs = c.n + 1

(***************************************************************************)
(* Claims about PackedBasis2d::fill (checked under SpecBasis).             *)
(***************************************************************************)
\* C18: PackedBasis2d.fill(point, out) writes B_nx(point.x)*B_ny(point.y)
\* into out[index.flat] for every (nx, ny) with nx + ny <= order, for both
\* packing orders; for the power basis that is x^nx * y^ny.
C18_PackedFillIsProduct ==
    (IsFill /\ basis.type = "PackedBasis2d") =>
        LET rec == basis.basis1d.recurrence
            x == call.point.x
            y == call.point.y
        IN  /\ DOMAIN call.out = 0..(computeSize(getOrder(basis)) - 1)
            /\ \A pr \in Triangle(getOrder(basis)) :
                  LET flat == computeIndex(basis.packing, pr[1], pr[2])
                  IN  /\ call.out[flat] = RMul(B(rec, pr[1], x), B(rec, pr[2], y))
                      /\ rec = "Polynomial" =>
                            call.out[flat] = RMul(RPow(x, pr[1]), RPow(y, pr[2]))

C18_Witness ==
    /\ IsFill /\ basis.type = "PackedBasis2d" /\ basis.packing = "XY"
    /\ getOrder(basis) = MaxBasisOrder /\ basis.basis1d.recurrence = "Chebyshev1"
    /\ call.point = Point2D(R(2), R(0 - 1))
    /\ call.out[computeIndex("XY", 2, 1)] = R(0 - 7)

(***************************************************************************)
(* Claims about Function1d and Function2d (checked under SpecFunction).    *)
(***************************************************************************)
\* C11: Function.scaled(s) returns a Function with the coefficients of the
\* original, element for element, whose value at every point x is the
\* original's value at s.applyForward(x); in 1-d and 2-d, over scaled and
\* unscaled bases.
C11_FunctionScaledKeepsCoefficients ==
    fnFrom # None =>
        /\ fn.coefficients = fnFrom.receiver.coefficients
        /\ (fnCall # None /\ ~fnCall.crashed /\ CoefficientCount(fn) >= FunctionSize(fn)) =>
              \A g \in Garbage :
                  fnCall.result =
                      FunctionCall(fnFrom.receiver,
                                   applyForward(fnFrom.scaling, fnCall.point),
                                   fnCall.mode, g)

C11_Witness ==
    /\ fnFrom # None /\ fnCall # None /\ ctor.kind = "range"
    /\ fnFrom.receiver.basis.type = "ScaledBasis2d" /\ getOrder(fn.basis) = MaxFunctionOrder
    /\ CoefficientCount(fn) = FunctionSize(fn)
    /\ fnCall.mode = "SAFE" /\ fnCall.result # R(0)

\* A constructor was given a collection or range whose length is not
\* basis.size().
Mismatched == ctor # None /\ ctor.length # size(ctor.basis)

\* C20 as stated: every Function holds exactly basis.size() coefficients,
\* and construction from a collection or range of any other length fails
\* the constructor's assertion and never yields a Function.
C20_AlwaysSizeCoefficients ==
    /\ fn # None =>
          /\ FunctionSize(fn) = size(fn.basis)
          /\ CoefficientCount(fn) = size(fn.basis)
    /\ Mismatched => (ctor.outcome = "assertion failed" /\ fn = None)

\* C20 as amended: a Function constructed with zero coefficients, or from a
\* vector or range of exactly basis.size() elements, holds exactly
\* basis.size() coefficients, as does every Function scaled() makes from it;
\* construction from any other length fails the constructor's assertion and
\* yields no Function where assertions are compiled in; where they are
\* compiled out the vector constructor returns a Function that stores the
\* given number of coefficients while size() reports basis.size().
C20_SizeContract ==
    /\ fn # None => FunctionSize(fn) = size(fn.basis)
    /\ (fn # None /\ ~Mismatched) => CoefficientCount(fn) = size(fn.basis)
    /\ (Mismatched /\ ~ndebug) => (ctor.outcome = "assertion failed" /\ fn = None)
    /\ (Mismatched /\ ndebug /\ ctor.kind = "vector") =>
          /\ ctor.outcome = "constructed"
          /\ fn # None
          /\ CoefficientCount(fn) = ctor.length
          /\ FunctionSize(fn) = size(ctor.basis)

C20_Witness ==
    /\ Mismatched /\ ~ndebug /\ ctor.kind = "range"
    /\ ctor.length = size(ctor.basis) - 1 /\ Is2d(ctor.basis)
    /\ ctor.outcome = "assertion failed" /\ fn = None

(***************************************************************************)
(* Claims about SafeSum (checked under SpecSafeSum).                       *)
(***************************************************************************)
Added(m) == IF ops[m].op = "-=" THEN DoubleNeg(ops[m].value) ELSE ops[m].value

\* s starts at 0 and 1, 1e16, 1, -1e16 are accumulated in that order, each by
\* += of the value or by -= of its negation.
TestSequence ==
    /\ Len(ops) = 5
    /\ ops[1] = [op |-> "init", value |-> DoubleZero]
    /\ \A m \in 2..5 : ops[m].op \in {"+=", "-="}
    /\ Added(2) = One
    /\ Added(3) = Big
    /\ Added(4) = One
    /\ Added(5) = DoubleNeg(Big)

\* C21: after 1.0, 1e16, 1.0, -1e16 are accumulated in that order, the SafeSum
\* converts to 2.0 and the plain double accumulated alongside is 0.0.
C21_CompensatedSumAdvantage ==
    TestSequence =>
        /\ SafeSumDoubleValue(safe) = DoubleOfInt(2)
        /\ naive = DoubleZero

C21_Witness ==
    /\ TestSequence
    /\ ops[5].op = "-="
    /\ safe = [sum |-> DoubleZero, correction |-> DoubleOfInt(2)]

\* The real number the operations since the last assignment (or the
\* construction) add up to.
RECURSIVE ExactTotal(_)
ExactTotal(m) ==
    IF ops[m].op \in {"init", "="} THEN ops[m].value
    ELSE ExactAdd(ExactTotal(m - 1), Added(m))

\* C30: while no addition has been rounded the correction is 0 and the
\* conversion is exactly the last assigned (or initial) value plus the values
\* added minus the values subtracted since; s -= v leaves s as s += (-v) does;
\* assignment sets the correction to 0.
C30_ExactWithoutRounding ==
    /\ ~inexact =>
          /\ safe.correction = DoubleZero
          /\ SafeSumDoubleValue(safe) = ExactTotal(Len(ops))
    /\ (Len(ops) > 1 /\ ops[Len(ops)].op = "-=") =>
          safe = SafeSumDoubleAdd(before, DoubleNeg(ops[Len(ops)].value))
    /\ (Len(ops) > 1 /\ ops[Len(ops)].op = "=") =>
          safe = [sum |-> ops[Len(ops)].value, correction |-> DoubleZero]

C30_Witness ==
    /\ ~inexact
    /\ Len(ops) = 4
    /\ ops[2].op = "+=" /\ ops[3].op = "=" /\ ops[4].op = "-="
    /\ ops[2].value = Big /\ ops[3].value = DoubleZero /\ ops[4].value = DoubleOfInt(3)
    /\ before = SafeSumDouble(DoubleZero)
    /\ SafeSumDoubleValue(safe) = DoubleOfInt(0 - 3)

(***************************************************************************)
(* Termination of the iteration (checked under SpecIndexFair).             *)
(***************************************************************************)
ReachesEndExactly ==
    /\ Len(visited) <= computeSize(order)
    /\ IndexDone <=> Len(visited) = computeSize(order)
    /\ RangeSize(packing, order) = computeSize(order)

\* C24: the iterator incremented from begin equals makeEnd(order) after
\* exactly computeSize(order) increments and never before, the loop over
\* getIndices() terminates, and the number of elements it visits is the
\* range's size() and computeSize(order).
C24_IterationTerminates == []ReachesEndExactly /\ <>IndexDone

C24_Witness ==
    /\ order = 4 /\ packing = "YX"
    /\ Len(visited) = 15
    /\ index = Index2d(15, 0, 5)
    /\ visited[15] = Index2d(14, 4, 0)

(***************************************************************************)
(* Claims about the steps of simplified() (checked under SpecSimplified).  *)
(***************************************************************************)
\* The source terms simplified(f) has to add: (n, k) in 1-d, (flat, j, k) in
\* 2-d.
AllTerms ==
    IF Is2d(f.basis)
    THEN {<<computeIndex(f.basis.nested.packing, t[1], t[2]), t[3], t[4]>> :
             t \in {u \in (0..getOrder(f.basis)) \X (0..getOrder(f.basis))
                             \X (0..getOrder(f.basis)) \X (0..getOrder(f.basis)) :
                       u[1] + u[2] <= getOrder(f.basis) /\ u[3] <= u[1] /\ u[4] <= u[2]}}
    ELSE {t \in (0..getOrder(f.basis)) \X (0..getOrder(f.basis)) : t[2] <= t[1]}

SeqToSet(sq) == {sq[m] : m \in 1..Len(sq)}

NoRepeats(sq) == \A a, b \in 1..Len(sq) : sq[a] = sq[b] => a = b

\* C27: no accumulator is converted before every source term has been added,
\* no accumulator is converted twice, and when simplified() returns every
\* accumulator has been converted (exactly once) into its own coefficient.
C27_ReadOnlyAtEnd ==
    /\ converted # <<>> =>
          /\ SeqToSet(added) = AllTerms
          /\ Len(added) = Cardinality(AllTerms)
    /\ NoRepeats(converted)
    /\ \A m \in 1..Len(converted) : result[converted[m]] = SafeSumValue(sums[converted[m]])
    /\ pc = "done" => SeqToSet(converted) = 0..(size(f.basis) - 1)

C27_Witness ==
    /\ pc = "done"
    /\ Is2d(f.basis) /\ getOrder(f.basis) = 2
    /\ Len(added) = 15
    /\ converted = <<0, 1, 2, 3, 4, 5>>

BinomialNMax(M) == Cardinality(DOMAIN M) - 1

PowerTableMax == Cardinality(DOMAIN computePowers(R(1), getOrder(f.basis))) - 1

InCache(a, b) == 0 <= b /\ b <= a /\ a <= BinomialNMax(SimplifiedBinomial(f))

InSums(m) == 0 <= m /\ m < size(f.basis) /\ m \in DOMAIN sums

\* C28: every access simplified() is about to make is in range: binomial
\* queries (n, k) have 0 <= k <= n <= nMax, where the cache was built with
\* nMax the order of the nested basis; accumulator, coefficient and result
\* indices lie in [0, size); power-table indices are at most the order.
C28_AccessesInRange ==
    /\ BinomialNMax(SimplifiedBinomial(f)) = getOrder(f.basis)
    /\ (pc = "sum" /\ ~Is2d(f.basis) /\ n < size(f.basis) /\ k <= n) =>
          /\ InCache(n, k)
          /\ InSums(n - k)
          /\ n \in DOMAIN f.coefficients
    /\ (pc = "sum" /\ Is2d(f.basis) /\ it # Simplified2dEnd /\ j <= it.nx) =>
          /\ InCache(it.nx, j)
          /\ j <= PowerTableMax /\ it.nx <= PowerTableMax /\ it.ny <= PowerTableMax
          /\ it.flat \in DOMAIN f.coefficients
          /\ k <= it.ny =>
                /\ InCache(it.ny, k)
                /\ k <= PowerTableMax
                /\ InSums(ScaledBasis2d_index(f.basis, it.nx - j, it.ny - k))
    /\ (pc = "read" /\ n < size(f.basis)) => (InSums(n) /\ n \in DOMAIN result)

C28_Witness ==
    /\ pc = "sum" /\ Is2d(f.basis) /\ getOrder(f.basis) = 2
    /\ it.nx = 2 /\ it.ny = 0 /\ j = 2 /\ k = 0
    /\ InCache(it.nx, j)
    /\ BinomialNMax(SimplifiedBinomial(f)) = 2

\* What shift 0 leaves of the expansion: a_m * s^m, a_{nx,ny} * rx^nx * ry^ny.
ScaledCoefficient(m) ==
    IF Is2d(f.basis)
    THEN LET i == CHOOSE t \in (0..getOrder(f.basis)) \X (0..getOrder(f.basis)) :
                      /\ t[1] + t[2] <= getOrder(f.basis)
                      /\ computeIndex(f.basis.nested.packing, t[1], t[2]) = m
         IN  RMul(RMul(f.coefficients[m], RPow(f.basis.scaling.x.scale, i[1])),
                  RPow(f.basis.scaling.y.scale, i[2]))
    ELSE RMul(f.coefficients[m], RPow(f.basis.scaling.scale, m))

ShiftIsZero ==
    IF Is2d(f.basis)
    THEN f.basis.scaling.x.shift = R(0) /\ f.basis.scaling.y.shift = R(0)
    ELSE f.basis.scaling.shift = R(0)

ScalingIsIdentity ==
    /\ ShiftIsZero
    /\ IF Is2d(f.basis)
       THEN f.basis.scaling.x.scale = R(1) /\ f.basis.scaling.y.scale = R(1)
       ELSE f.basis.scaling.scale = R(1)

\* C29: with shift 0 every accumulator only ever holds 0 or its own term
\* a_m * s^m (a_{nx,ny} * rx^nx * ry^ny), which is the coefficient returned;
\* with the identity scaling the returned coefficients are the input's.
C29_ZeroShift ==
    /\ ShiftIsZero =>
          /\ \A m \in DOMAIN sums :
                SafeSumValue(sums[m]) \in {R(0), ScaledCoefficient(m)}
          /\ pc = "done" =>
                \A m \in DOMAIN sums : ret.coefficients[m] = ScaledCoefficient(m)
    /\ (ScalingIsIdentity /\ pc = "done") => ret.coefficients = f.coefficients

C29_Witness ==
    /\ pc = "done"
    /\ Is2d(f.basis) /\ getOrder(f.basis) = 2 /\ f.basis.nested.packing = "XY"
    /\ f.basis.scaling = Scaling2d(Scaling1d(R(3), R(0)), Scaling1d(R(0 - 2), R(0)))
    /\ f.coefficients[4] = R(5)
    /\ ret.coefficients[4] = R(0 - 30)

(***************************************************************************)
(* Claims about receivers (checked under SpecReceiver).                    *)
(***************************************************************************)
SameObject(a, b) ==
    /\ getOrder(BasisOf(a)) = getOrder(BasisOf(b))
    /\ size(BasisOf(a)) = size(BasisOf(b))
    /\ BasisOf(a) = BasisOf(b)
    /\ IsFunction(a) => a.coefficients = b.coefficients
    /\ a = b

Alone(fr, ws) ==
    IF fr.op = "sumWith"
    THEN IF IsScaled(BasisOf(shared[fr.target]))
         THEN ScaledBasis2d_sumWithWs(BasisOf(shared[fr.target]), fr.point, fr.coefficients,
                                      ws, fr.mode).result
         ELSE PackedBasis2d_sumWithWs(BasisOf(shared[fr.target]), fr.point, fr.coefficients,
                                      ws, fr.mode).result
    ELSE IF IsScaled(BasisOf(shared[fr.target]))
         THEN ScaledBasis2d_fillWs(BasisOf(shared[fr.target]), fr.point,
                                   Zero(size(BasisOf(shared[fr.target]))), ws).basis
         ELSE PackedBasis2d_fillWs(BasisOf(shared[fr.target]), fr.point,
                                   Zero(size(BasisOf(shared[fr.target]))), ws).basis

\* C23: with two callers evaluating the same object, each on its own
\* workspace, whatever the interleaving of their statements each call returns
\* what it returns when run alone.
C23_ConcurrentCallersAgree ==
    Len(callers) = 2 =>
        \A c \in 1..2 :
            callers[c].pc = "done" => callers[c].result = Alone(callers[c], callers[c].atStart)

C23_Witness ==
    /\ Len(callers) = 2
    /\ IsFunction(shared[1]) /\ getOrder(BasisOf(shared[1])) = 1
    /\ callers[1].pc = "done" /\ callers[2].pc = "done"
    /\ callers[1].overlapped /\ ~callers[2].overlapped
    /\ callers[1].point # callers[2].point
    /\ callers[1].result # callers[2].result

\* The internal-workspace overload of the call of frame fr, whose fresh
\* workspace holds g.
InternalOverload(fr, g) ==
    IF fr.op = "sumWith"
    THEN sumWith(BasisOf(shared[fr.target]), fr.point, fr.coefficients, fr.mode, g)
    ELSE fill(BasisOf(shared[fr.target]), fr.point, Zero(size(BasisOf(shared[fr.target]))), g)

\* C25: a call given a workspace of at least the basis's order returns what
\* the internal-workspace overload returns, whatever the workspace held:
\* garbage, or the values left by earlier calls at other points or of a basis
\* of lower order.
C25_WorkspaceContentsIrrelevant ==
    \A c \in 1..Len(callers) :
        callers[c].pc = "done" =>
            \A g \in Garbage : callers[c].result = InternalOverload(callers[c], g)

C25_Witness ==
    /\ Len(callers) = 1
    /\ callers[1].pc = "done" /\ callers[1].budget = 0
    /\ callers[1].target = 2
    /\ getOrder(shared[2]) < getOrder(BasisOf(shared[1]))
    /\ WorkspaceGetOrder(callers[1].atStart) > getOrder(shared[2])
    /\ callers[1].atStart.x[1] \notin Garbage

(***************************************************************************)
(* Claims about longer buffers (checked under SpecBuffer).                 *)
(***************************************************************************)
FirstElements(vec, len) == [m \in 0..(len - 1) |-> vec[m]]

\* C26: for a basis of size S, fill assigns every destination element
\* 0..S-1 (the values it gives a buffer of exactly S elements) and leaves
\* element S as it was, and sumWith returns what it returns for the first S
\* coefficients alone, whatever element S holds.
C26_OnlyFirstSizeElements ==
    call # None =>
        /\ call.op = "fill" =>
              /\ \A m \in 0..(size(basis) - 1) : call.out[m] # Unwritten
              /\ \A g \in Garbage :
                    FirstElements(call.out, size(basis)) = fill(basis, call.point, Zero(size(basis)), g)
              /\ DOMAIN call.out = 0..size(basis)
              /\ call.out[size(basis)] = call.given[size(basis)]
        /\ call.op = "sumWith" =>
              \A g \in Garbage :
                  call.out = sumWith(basis, call.point, FirstElements(call.given, size(basis)),
                                     call.mode, g)

C26_Witness ==
    /\ call # None /\ call.op = "fill"
    /\ basis.type = "ScaledBasis1d" /\ getOrder(basis) = 2 /\ Len(applied) = 1
    /\ call.out[3] = R(0 - 11)
    /\ call.out[2] # call.out[1]

====
